---- MODULE Spec2Model ----
(***************************************************************************)
(* luci-app-2fa: the OTP second factor of the LuCI login.                   *)
(*                                                                         *)
(* State: the UCI configuration '2fa' (settings section and one section    *)
(* per principal), the rate-limit file /tmp/2fa_rate_limit.json, the       *)
(* system clock, and the last request with its response.                   *)
(*                                                                         *)
(* Text is modelled as a sequence of one-character strings, so that trim,  *)
(* uc, replace, the regular expressions, int() and '' + n are computed as  *)
(* the code computes them.                                                 *)
(***************************************************************************)
EXTENDS Integers, Sequences, FiniteSets, TLC

(***************************************************************************)
(* Bounds of the model.                                                    *)
(***************************************************************************)
MaxNow == 6
MaxCounter == 3
MaxCode == 4

\* the clock at the start of a run
StartTime == 2

(***************************************************************************)
(* Text primitives of ucode.                                               *)
(***************************************************************************)
Null == <<"null">>

DigitSeq == <<"0", "1", "2", "3", "4", "5", "6", "7", "8", "9">>
UpperSeq == <<"A", "B", "C", "D", "E", "F", "G", "H", "I", "J", "K", "L", "M",
              "N", "O", "P", "Q", "R", "S", "T", "U", "V", "W", "X", "Y", "Z">>
LowerSeq == <<"a", "b", "c", "d", "e", "f", "g", "h", "i", "j", "k", "l", "m",
              "n", "o", "p", "q", "r", "s", "t", "u", "v", "w", "x", "y", "z">>
HexSeq == <<"0", "1", "2", "3", "4", "5", "6", "7", "8", "9",
            "a", "b", "c", "d", "e", "f">>

Range(s) == {s[i] : i \in 1..Len(s)}
IndexIn(s, c) == CHOOSE i \in 1..Len(s) : s[i] = c

DigitSet == Range(DigitSeq)
UpperSet == Range(UpperSeq)
LowerSet == Range(LowerSeq)
SpaceSet == {" ", "\t", "\n", "\r"}

IsDigit(c) == c \in DigitSet
IsUpper(c) == c \in UpperSet
IsLower(c) == c \in LowerSet
IsAlnum(c) == IsDigit(c) \/ IsUpper(c) \/ IsLower(c)
IsSpace(c) == c \in SpaceSet

\* the ASCII codes of the characters of a run of the alphabet that starts after base
CodesOf(s, base) == [c \in Range(s) |-> base + IndexIn(s, c)]

\* the ASCII codes of the characters the model uses
AsciiTable ==
    CodesOf(DigitSeq, 47) @@ CodesOf(UpperSeq, 64) @@ CodesOf(LowerSeq, 96)
        @@ (" " :> 32) @@ ("\t" :> 9) @@ ("\n" :> 10) @@ ("\r" :> 13)
        @@ ("+" :> 43) @@ ("," :> 44) @@ ("-" :> 45) @@ ("." :> 46)
        @@ ("/" :> 47) @@ (":" :> 58) @@ (";" :> 59) @@ ("_" :> 95)

\* ord(): the ASCII code of a character
ord(c) == AsciiTable[c]

\* the upper-case letter of a lower-case one
UpperOf == CodesOf(LowerSeq, 0)

\* uc(): upper-case a text
uc(s) == [i \in 1..Len(s) |->
            IF IsLower(s[i]) THEN UpperSeq[UpperOf[s[i]]] ELSE s[i]]

\* replace(s, c, ''): remove the occurrences of a character
RemoveChar(s, c) == SelectSeq(s, LAMBDA x : x # c)

\* substr(s, off, len) with a 0-based offset
substr(s, off, len) ==
    IF off >= Len(s) THEN <<>>
    ELSE SubSeq(s, off + 1, IF off + len > Len(s) THEN Len(s) ELSE off + len)

RECURSIVE LTrim(_)
LTrim(s) == IF s # <<>> /\ IsSpace(Head(s)) THEN LTrim(Tail(s)) ELSE s
RECURSIVE RTrim(_)
RTrim(s) == IF s # <<>> /\ IsSpace(s[Len(s)]) THEN RTrim(SubSeq(s, 1, Len(s) - 1)) ELSE s
\* trim(): strip leading and trailing white space
trim(s) == RTrim(LTrim(s))

\* index(s, c): position of the first occurrence, -1 when absent
index(s, c) ==
    IF c \in Range(s) THEN (CHOOSE i \in 1..Len(s) : s[i] = c /\ \A j \in 1..(i - 1) : s[j] # c) - 1
    ELSE -1

\* split(s, c)
RECURSIVE split(_, _)
split(s, c) ==
    IF index(s, c) < 0 THEN <<s>>
    ELSE <<SubSeq(s, 1, index(s, c))>> \o split(SubSeq(s, index(s, c) + 2, Len(s)), c)

\* strtoll(): the digits a decimal text starts with
RECURSIVE LeadingDigits(_)
LeadingDigits(s) ==
    IF s # <<>> /\ IsDigit(Head(s)) THEN <<Head(s)>> \o LeadingDigits(Tail(s)) ELSE <<>>

\* strtoll(): the text after an optional sign
Unsigned(s) == IF s # <<>> /\ Head(s) \in {"-", "+"} THEN Tail(s) ELSE s

\* int() of the text is a number and not NaN: after leading white space and an
\* optional sign the text starts with a digit
IsNumber(s) == LeadingDigits(Unsigned(LTrim(s))) # <<>>

RECURSIVE DigitsToInt(_)
DigitsToInt(d) ==
    IF d = <<>> THEN 0
    ELSE 10 * DigitsToInt(SubSeq(d, 1, Len(d) - 1)) + (IndexIn(DigitSeq, d[Len(d)]) - 1)

\* int(): the number a decimal text starts with; what follows the digits is ignored
int(s) ==
    IF LTrim(s) # <<>> /\ Head(LTrim(s)) = "-"
    THEN 0 - DigitsToInt(LeadingDigits(Unsigned(LTrim(s))))
    ELSE DigitsToInt(LeadingDigits(Unsigned(LTrim(s))))

RECURSIVE NatToStr(_)
NatToStr(n) == IF n < 10 THEN <<DigitSeq[n + 1]>> ELSE NatToStr(n \div 10) \o <<DigitSeq[(n % 10) + 1]>>

\* '' + n: the decimal text of an integer
IntToStr(n) == IF n < 0 THEN <<"-">> \o NatToStr(0 - n) ELSE NatToStr(n)

\* sprintf('%06d', n) for 0 <= n < 10^6
Pad6(n) == [i \in 1..(6 - Len(NatToStr(n))) |-> "0"] \o NatToStr(n)


(***************************************************************************)
(* The texts of the model: option values, principal names, addresses and   *)
(* submitted values.                                                       *)
(***************************************************************************)
T0 == <<"0">>
T1 == <<"1">>
T5 == <<"5">>
T30 == <<"3", "0">>
T60 == <<"6", "0">>
T300 == <<"3", "0", "0">>
TTotp == <<"t", "o", "t", "p">>
THotp == <<"h", "o", "t", "p">>
TRoot == <<"r", "o", "o", "t">>
TLoopback4 == <<"1", "2", "7", ".", "0", ".", "0", ".", "1">>
TLoopback6 == <<":", ":", "1">>
TKey == <<"J", "B", "S", "W", "Y", "3", "D", "P", "E", "H", "P", "K", "3", "P", "X", "P">>
T2 == <<"2">>
T3 == <<"3">>
T4 == <<"4">>
IpOut == <<"8", ".", "8", ".", "8", ".", "8">>
IpIn == <<"1", "9", "2", ".", "1", "6", "8", ".", "1", ".", "7">>
Allowlist == << <<"1", "0", ".", "0", ".", "0", ".", "5">>,
                <<"1", "9", "2", ".", "1", "6", "8", ".", "1", ".", "0", "/", "2", "4">> >>
TPlus == <<"a", "+", "b">>
TBad == <<"r", ";", "t">>
TBob == <<"b", "o", "b">>
TBlank == <<" ">>
TShort == <<"1", "2", "3", "4", "5">>
TAlpha == <<"a", "b", "c", "1", "2", "3">>
TUnknownBackup == <<"Z", "Z", "Z", "Z", "-", "Z", "Z", "Z", "Z">>
ErrorText == <<"E", "r", "r", "o", "r">>

\* the source addresses of the requests; the empty text is a request without one
ClientIPs == {IpOut, IpIn, <<>>}

(***************************************************************************)
(* Regular expressions used by the handlers.                               *)
(***************************************************************************)
\* /^[A-Za-z0-9]{4}-?[A-Za-z0-9]{4}$/
MatchBackupFormat(s) ==
    \/ Len(s) = 8 /\ \A i \in 1..8 : IsAlnum(s[i])
    \/ Len(s) = 9 /\ s[5] = "-" /\ \A i \in (1..9) \ {5} : IsAlnum(s[i])

\* /^[0-9]{6}$/
MatchSixDigits(s) == Len(s) = 6 /\ \A i \in 1..6 : IsDigit(s[i])

\* /^(\d{1,3}\.){3}\d{1,3}$/
MatchIPv4(s) ==
    LET parts == split(s, ".")
    IN  /\ Len(parts) = 4
        /\ \A i \in 1..4 : /\ Len(parts[i]) \in 1..3
                           /\ \A j \in 1..Len(parts[i]) : IsDigit(parts[i][j])

(***************************************************************************)
(* Bit operations.  ucode integers are 64 bits wide; a value is kept here  *)
(* as the pair <<hi, lo>> of its bits above and below 2^16.                *)
(***************************************************************************)
W16 == 65536

\* the bit operations on four bits, computed once
NibbleAnd ==
    [a \in 0..15 |-> [b \in 0..15 |->
        (a % 2) * (b % 2) + 2 * (((a \div 2) % 2) * ((b \div 2) % 2))
            + 4 * (((a \div 4) % 2) * ((b \div 4) % 2)) + 8 * ((a \div 8) * (b \div 8))]]
NibbleXor == [a \in 0..15 |-> [b \in 0..15 |-> a + b - 2 * NibbleAnd[a][b]]]
NibbleOr == [a \in 0..15 |-> [b \in 0..15 |-> a + b - NibbleAnd[a][b]]]

RECURSIVE BitXor(_, _)
BitXor(a, b) ==
    IF a = 0 THEN b ELSE IF b = 0 THEN a
    ELSE NibbleXor[a % 16][b % 16] + 16 * BitXor(a \div 16, b \div 16)

RECURSIVE BitAnd(_, _)
BitAnd(a, b) ==
    IF a = 0 \/ b = 0 THEN 0
    ELSE NibbleAnd[a % 16][b % 16] + 16 * BitAnd(a \div 16, b \div 16)

RECURSIVE BitOr(_, _)
BitOr(a, b) ==
    IF a = 0 THEN b ELSE IF b = 0 THEN a
    ELSE NibbleOr[a % 16][b % 16] + 16 * BitOr(a \div 16, b \div 16)

PowersOfTwo ==
    <<1, 2, 4, 8, 16, 32, 64, 128, 256, 512, 1024, 2048, 4096, 8192, 16384, 32768, 65536,
      131072, 262144, 524288, 1048576, 2097152, 4194304, 8388608, 16777216, 33554432,
      67108864, 134217728, 268435456, 536870912, 1073741824>>

Pow2(n) == PowersOfTwo[n + 1]

WXor(x, y) == <<BitXor(x[1], y[1]), BitXor(x[2], y[2])>>
WOr(x, y) == <<BitOr(x[1], y[1]), BitOr(x[2], y[2])>>
WAnd(x, y) == <<BitAnd(x[1], y[1]), BitAnd(x[2], y[2])>>
\* a natural below 2^31 as a pair
WOf(n) == <<n \div W16, n % W16>>

\* sprintf('%08x', w) of a 32-bit value
Hex4(n) == <<HexSeq[(n \div 4096) + 1], HexSeq[((n \div 256) % 16) + 1],
             HexSeq[((n \div 16) % 16) + 1], HexSeq[(n % 16) + 1]>>
Hex8(w) == Hex4(w[1]) \o Hex4(w[2])

(***************************************************************************)
(* backup_code_hash: two rounds over the characters, 32-bit masked.        *)
(***************************************************************************)
FnvOffsetBasis == <<33052, 40389>>   \* 0x811c9dc5
FnvPrime == <<256, 403>>             \* 0x01000193

\* (w * 0x01000193) & 0xFFFFFFFF
MulPrime(w) ==
    LET t == w[2] * FnvPrime[2]
    IN  <<((t \div W16) + w[1] * FnvPrime[2] + w[2] * FnvPrime[1]) % W16, t % W16>>

\* first round: h1 = ((h1 ^ c) * prime) & 0xFFFFFFFF
RECURSIVE HashRound1(_, _)
HashRound1(str, n) ==
    IF n = 0 THEN FnvOffsetBasis
    ELSE MulPrime(WXor(HashRound1(str, n - 1), <<0, ord(str[n])>>))

\* second round, character at 0-based position i:
\* h2 = h2 ^ ((c << (i % 24)) | (c >> (32 - (i % 24)))); h2 = ((h2 << 5) + h2 + c) & 0xFFFFFFFF
HashStep2(h2, c, i) ==
    LET x == WXor(h2, WOf(c * Pow2(i % 24)))
        lo == 33 * x[2] + c
    IN  <<(33 * x[1] + (lo \div W16)) % W16, lo % W16>>

RECURSIVE HashRound2(_, _)
HashRound2(str, n) ==
    IF n = 0 THEN FnvPrime
    ELSE HashStep2(HashRound2(str, n - 1), ord(str[n]), n - 1)

backup_code_hash(str) ==
    LET h1 == HashRound1(str, Len(str))
        h2 == HashRound2(str, Len(str))
        \* (h1 ^ (h2 >> 16) ^ (h2 << 16)) & 0xFFFFFFFF
        f1 == <<BitXor(h1[1], h2[2]), BitXor(h1[2], h2[1])>>
        \* final ^ (h1 >> 8)
        f2 == WXor(f1, <<h1[1] \div 256, (h1[1] % 256) * 256 + (h1[2] \div 256)>>)
    IN  Hex8(h1) \o Hex8(WXor(f2, h2))

\* constant_time_compare: equal lengths and no differing character code
constant_time_compare(a, b) ==
    /\ Len(a) = Len(b)
    /\ \A i \in 1..Len(a) : ord(a[i]) = ord(b[i])

(***************************************************************************)
(* Principal names.                                                        *)
(***************************************************************************)
\* auth plugin: /^[a-zA-Z0-9_.+-]+$/ ; Null when the name is refused
sanitize_username(username) ==
    IF username # <<>> /\ \A i \in 1..Len(username) :
            IsAlnum(username[i]) \/ username[i] \in {"_", ".", "+", "-"}
    THEN username ELSE Null

\* rpcd backend: /^[a-zA-Z0-9_.-]+$/
rpc_sanitize_username(username) ==
    IF username # <<>> /\ \A i \in 1..Len(username) :
            IsAlnum(username[i]) \/ username[i] \in {"_", ".", "-"}
    THEN username ELSE Null


(***************************************************************************)
(* The UCI configuration '2fa'.  An option that is not set reads as Null;  *)
(* a list option that is not set reads as the empty list.                  *)
(*   uci.settings : enabled, ip_whitelist_enabled, ip_whitelist,           *)
(*                  rate_limit_enabled, rate_limit_max_attempts,           *)
(*                  rate_limit_window, rate_limit_lockout, min_valid_time  *)
(*   uci.users[u] : key, type, step, counter, backup_codes                 *)
(***************************************************************************)
\* a value that ucode treats as true: neither null nor the empty text
Truthy(v) == v # Null /\ v # <<>>

\* v || d
OrDefault(v, d) == IF Truthy(v) THEN v ELSE d

\* ctx.get('2fa', 'settings', opt)
GetSetting(u, opt) == u.settings[opt]

\* ctx.get('2fa', user, opt): Null when the section does not exist
GetUser(u, user, opt) == IF user \in DOMAIN u.users THEN u.users[user][opt] ELSE Null

\* ctx.set('2fa', user, opt, val); the section of a principal exists before a login
SetUser(u, user, opt, val) ==
    IF user \in DOMAIN u.users
    THEN [u EXCEPT !.users[user][opt] = val]
    ELSE u


(***************************************************************************)
(* Time calibration.                                                       *)
(***************************************************************************)
DEFAULT_MIN_VALID_TIME == 1767225600

check_time_calibration(u, time) ==
    LET config_time == GetSetting(u, "min_valid_time")
        min_valid_time == IF Truthy(config_time) THEN int(config_time) ELSE DEFAULT_MIN_VALID_TIME
    IN  [calibrated |-> time >= min_valid_time,
         current_time |-> time,
         min_valid_time |-> min_valid_time]

(***************************************************************************)
(* IP allowlist.                                                           *)
(***************************************************************************)
\* (a << 24) | (b << 16) | (c << 8) | d as a pair <<hi, lo>>
IpInt(parts) ==
    LET a == int(parts[1])
        b == int(parts[2])
        c == int(parts[3])
        d == int(parts[4])
    IN  WOr(WOr(<<a * 256, 0>>, <<b, 0>>), WOr(WOf(c * 256), <<0, d>>))

\* (0xFFFFFFFF << (32 - prefix)) & 0xFFFFFFFF for 0 < prefix <= 32, 0 for prefix = 0
NetMask(prefix) ==
    IF prefix <= 0 THEN <<0, 0>>
    ELSE IF prefix <= 16 THEN <<W16 - Pow2(16 - prefix), 0>>
    ELSE <<W16 - 1, W16 - Pow2(32 - prefix)>>

\* ip_in_cidr that compares the address with the network address only
ip_in_cidr_literal(ip, cidr) == ip = split(cidr, "/")[1]

ip_in_cidr(ip, cidr) ==
    LET parts == split(cidr, "/")
        network_ip == parts[1]
        prefix == IF Len(parts) > 1 THEN int(parts[2]) ELSE 32
    IN  IF ~MatchIPv4(ip) THEN ip = network_ip
        ELSE IF ~MatchIPv4(network_ip) THEN FALSE
        ELSE WAnd(IpInt(split(ip, ".")), NetMask(prefix))
               = WAnd(IpInt(split(network_ip, ".")), NetMask(prefix))

\* the loop of is_ip_whitelisted over the entries of the list
MatchesEntry(ips, ip) ==
    \E k \in 1..Len(ips) :
        /\ ips[k] # <<>>
        /\ IF index(ips[k], "/") >= 0 THEN ip_in_cidr(ip, ips[k]) ELSE ip = ips[k]

\* the loop's results for the list and the addresses of the model, computed once
AllowlistTable == [ip \in ClientIPs |-> MatchesEntry(Allowlist, ip)]

is_ip_whitelisted(u, ip) ==
    IF GetSetting(u, "ip_whitelist_enabled") # T1 THEN FALSE
    ELSE LET ips == GetSetting(u, "ip_whitelist")
         IN  IF ips = Allowlist /\ ip \in ClientIPs THEN AllowlistTable[ip]
             ELSE MatchesEntry(ips, ip)

(***************************************************************************)
(* Rate limiter.  The state file maps an address to                        *)
(* [attempts |-> failure times, locked_until |-> time]; an address without *)
(* an entry is outside the domain.                                         *)
(***************************************************************************)
NoEntry == [attempts |-> <<>>, locked_until |-> 0]

\* state[ip], created empty when missing
EntryOf(state, ip) == IF ip \in DOMAIN state THEN state[ip] ELSE NoEntry

\* state[ip] = e; save_rate_limit_state(state)
SaveEntry(state, ip, e) == [i \in DOMAIN state \cup {ip} |-> IF i = ip THEN e ELSE state[i]]

\* delete state[ip]; save_rate_limit_state(state)
clear_rate_limit(state, ip) == [i \in DOMAIN state \ {ip} |-> state[i]]

\* the attempts made at time - window or later
AttemptsSince(attempts, time, window) == SelectSeq(attempts, LAMBDA a : a >= time - window)

\* the attempts made after time - window
RecentAttempts(attempts, time, window) == SelectSeq(attempts, LAMBDA a : a > time - window)

\* check_rate_limit that keeps the failure list when it locks the address
check_rate_limit_keeping(u, state, time, ip) ==
    IF GetSetting(u, "rate_limit_enabled") # T1
    THEN [ret |-> [allowed |-> TRUE, remaining |-> -1, locked_until |-> 0], state |-> state]
    ELSE LET max_attempts == int(OrDefault(GetSetting(u, "rate_limit_max_attempts"), T5))
             window == int(OrDefault(GetSetting(u, "rate_limit_window"), T60))
             lockout == int(OrDefault(GetSetting(u, "rate_limit_lockout"), T300))
             ip_state == EntryOf(state, ip)
             recent == RecentAttempts(ip_state.attempts, time, window)
         IN  IF ip_state.locked_until > time
             THEN [ret |-> [allowed |-> FALSE, remaining |-> 0,
                            locked_until |-> ip_state.locked_until],
                   state |-> state]
             ELSE IF max_attempts - Len(recent) <= 0
             THEN [ret |-> [allowed |-> FALSE, remaining |-> 0, locked_until |-> time + lockout],
                   state |-> SaveEntry(state, ip, [attempts |-> recent, locked_until |-> time + lockout])]
             ELSE [ret |-> [allowed |-> TRUE, remaining |-> max_attempts - Len(recent),
                            locked_until |-> 0],
                   state |-> SaveEntry(state, ip, [ip_state EXCEPT !.attempts = recent])]

\* the result of check_rate_limit and the state file it leaves
check_rate_limit(u, state, time, ip) ==
    IF GetSetting(u, "rate_limit_enabled") # T1
    THEN [ret |-> [allowed |-> TRUE, remaining |-> -1, locked_until |-> 0], state |-> state]
    ELSE LET max_attempts == int(OrDefault(GetSetting(u, "rate_limit_max_attempts"), T5))
             window == int(OrDefault(GetSetting(u, "rate_limit_window"), T60))
             lockout == int(OrDefault(GetSetting(u, "rate_limit_lockout"), T300))
             ip_state == EntryOf(state, ip)
             recent == RecentAttempts(ip_state.attempts, time, window)
             remaining == max_attempts - Len(recent)
         IN  IF ip_state.locked_until > time
             THEN [ret |-> [allowed |-> FALSE, remaining |-> 0,
                            locked_until |-> ip_state.locked_until],
                   state |-> state]
             ELSE IF remaining <= 0
             THEN [ret |-> [allowed |-> FALSE, remaining |-> 0, locked_until |-> time + lockout],
                   state |-> SaveEntry(state, ip, [attempts |-> <<>>, locked_until |-> time + lockout])]
             ELSE [ret |-> [allowed |-> TRUE, remaining |-> remaining, locked_until |-> 0],
                   state |-> SaveEntry(state, ip, [ip_state EXCEPT !.attempts = recent])]

\* record_failed_attempt that does not look at rate_limit_enabled
record_failed_attempt_always(u, state, time, ip) ==
    SaveEntry(state, ip, [EntryOf(state, ip) EXCEPT !.attempts = Append(@, time)])

\* the state file after record_failed_attempt
record_failed_attempt(u, state, time, ip) ==
    IF GetSetting(u, "rate_limit_enabled") # T1 THEN state
    ELSE SaveEntry(state, ip, [EntryOf(state, ip) EXCEPT !.attempts = Append(@, time)])

\* a failure that deletes the entry of the address
ForgetIfTracked(u, state, time, ip) ==
    IF Truthy(ip) THEN clear_rate_limit(state, ip) ELSE state

\* if (client_ip) record_failed_attempt(client_ip)
RecordIfTracked(u, state, time, ip) ==
    IF Truthy(ip) THEN record_failed_attempt(u, state, time, ip) ELSE state

\* a success that leaves the entry of the address in the state file
KeepEntry(state, ip) == state

\* if (client_ip) clear_rate_limit(client_ip)
ClearIfTracked(state, ip) == IF Truthy(ip) THEN clear_rate_limit(state, ip) ELSE state


(***************************************************************************)
(* The OTP engine of generate_otp.uc: base32, SHA-1, HMAC-SHA1 and the     *)
(* dynamic truncation.  A byte is a number in 0..255, a string of bytes a  *)
(* sequence of them, and a 32-bit word the pair of its 16-bit halves.      *)
(***************************************************************************)
\* chr(c): the byte of a number
cTos(c) == IF c < 0 THEN 0 ELSE IF c > 255 THEN 255 ELSE c

\* join("", map(bin, cTos))
binToStr(bin) == [i \in 1..Len(bin) |-> cTos(bin[i])]

\* ord(string, i) for every position
strToBin(string) == [i \in 1..Len(string) |-> string[i] % 256]

\* the four bytes of a word, most significant first
intToBin(w) == <<w[1] \div 256, w[1] % 256, w[2] \div 256, w[2] % 256>>

\* base32_decode_table: the value of a character, -1 when the table has no entry
Base32Value(c) ==
    IF IsUpper(c) THEN IndexIn(UpperSeq, c) - 1
    ELSE IF IsLower(c) THEN IndexIn(LowerSeq, c) - 1
    ELSE IF c \in {"2", "3", "4", "5", "6", "7"} THEN 23 + IndexIn(DigitSeq, c)
    ELSE -1

\* the bits of the decoding buffer that are kept: the buffer of the code is 64
\* bits wide and wraps, and only its bits below bits_in_buffer + 8 <= 12 are read
BufferKept == 1048576

\* one character of decode_base32; st is <<buffer, bits_in_buffer, out>>
DecodeChar(st, c) ==
    IF c \in {"=", " ", "\t", "\n", "\r"} \/ Base32Value(c) < 0 THEN st
    ELSE IF st[2] + 5 >= 8
    THEN <<(st[1] * 32 + Base32Value(c)) % BufferKept, st[2] - 3,
           Append(st[3], ((st[1] * 32 + Base32Value(c)) \div Pow2(st[2] - 3)) % 256)>>
    ELSE <<(st[1] * 32 + Base32Value(c)) % BufferKept, st[2] + 5, st[3]>>

RECURSIVE DecodeUpTo(_, _)
DecodeUpTo(string, n) ==
    IF n = 0 THEN <<0, 0, <<>>>> ELSE DecodeChar(DecodeUpTo(string, n - 1), string[n])

decode_base32(string) == DecodeUpTo(string, Len(string))[3]

\* (x + y) & 0xFFFFFFFF
WAdd(x, y) == <<(x[1] + y[1] + ((x[2] + y[2]) \div W16)) % W16, (x[2] + y[2]) % W16>>

\* the low 32 bits of ~x
WNot(x) == <<65535 - x[1], 65535 - x[2]>>

\* ((val << shift) | (val >> (32 - shift))) & 0xFFFFFFFF
RECURSIVE circular_shift(_, _)
circular_shift(val, shift) ==
    IF shift >= 16 THEN circular_shift(<<val[2], val[1]>>, shift - 16)
    ELSE IF shift = 0 THEN val
    ELSE <<((val[1] * Pow2(shift)) % W16) + (val[2] \div Pow2(16 - shift)),
           ((val[2] * Pow2(shift)) % W16) + (val[1] \div Pow2(16 - shift))>>

\* the message with 0x80, the zero bytes and the length in bits; the last entry
\* is length * 8 and not reduced to a byte
PaddedString(binary_string) ==
    binary_string \o <<128>>
        \o [i \in 1..(64 - ((Len(binary_string) + 9) % 64)) |-> 0]
        \o <<0, 0, 0, 0, 0, 0, 0, Len(binary_string) * 8>>

\* block[i2] of the block that starts at offset i: b0 << 24 | b1 << 16 | b2 << 8 | b3
BlockWord(p, i, i2) ==
    <<BitOr(p[i + 4 * i2 + 1] * 256 + p[i + 4 * i2 + 2], p[i + 4 * i2 + 4] \div W16),
      BitOr(p[i + 4 * i2 + 3] * 256, p[i + 4 * i2 + 4] % W16)>>

\* block[j] = circular_shift(block[j - 3] ^ block[j - 8] ^ block[j - 14] ^ block[j - 16], 1)
\* for j from Len(w) up to n - 1
RECURSIVE ExpandTo(_, _)
ExpandTo(w, n) ==
    IF Len(w) >= n THEN w
    ELSE ExpandTo(Append(w, circular_shift(WXor(WXor(w[Len(w) - 2], w[Len(w) - 7]),
                                                WXor(w[Len(w) - 13], w[Len(w) - 15])), 1)), n)

\* block[16..79], computed in four runs of the loop
Expand(w) == ExpandTo(ExpandTo(ExpandTo(ExpandTo(w, 32), 48), 64), 80)

RoundF(j, b, c, d) ==
    IF j < 20 THEN WOr(WAnd(b, c), WAnd(WNot(b), d))
    ELSE IF j < 40 THEN WXor(WXor(b, c), d)
    ELSE IF j < 60 THEN WOr(WOr(WAnd(b, c), WAnd(b, d)), WAnd(c, d))
    ELSE WXor(WXor(b, c), d)

\* 0x5A827999, 0x6ED9EBA1, 0x8F1BBCDC, 0xCA62C1D6
RoundK(j) ==
    IF j < 20 THEN <<23170, 31129>>
    ELSE IF j < 40 THEN <<28377, 60321>>
    ELSE IF j < 60 THEN <<36635, 48348>>
    ELSE <<51810, 49622>>

\* one round on s = <<a, b, c, d, e>>
Round(s, j, wj) ==
    <<WAdd(WAdd(WAdd(WAdd(circular_shift(s[1], 5), RoundF(j, s[2], s[3], s[4])), s[5]),
                RoundK(j)), wj),
      s[1], circular_shift(s[2], 30), s[3], s[4]>>

\* the rounds j..n-1 on s, an array of five words
RECURSIVE Rounds(_, _, _, _)
Rounds(s, w, j, n) ==
    IF j = n \/ Len(s) # 5 THEN s ELSE Rounds(Round(s, j, w[j + 1]), w, j + 1, n)

\* the 80 rounds, computed in four runs of the loop
AllRounds(h, w) == Rounds(Rounds(Rounds(Rounds(h, w, 0, 20), w, 20, 40), w, 40, 60), w, 60, 80)

\* h0..h4 after a block with the words w
Compress(h, w) == [k \in 1..5 |-> WAdd(h[k], AllRounds(h, w)[k])]

\* h0..h4 after the blocks from offset i on
RECURSIVE Digest(_, _, _)
Digest(h, p, i) ==
    IF i >= Len(p) \/ Len(h) # 5 THEN h
    ELSE Digest(Compress(h, Expand([i2 \in 1..16 |-> BlockWord(p, i, i2 - 1)])), p, i + 64)

\* 0x67452301, 0xEFCDAB89, 0x98BADCFE, 0x10325476, 0xC3D2E1F0
InitialHash == <<<<26437, 8961>>, <<61389, 43913>>, <<39098, 56574>>, <<4146, 21622>>, <<50130, 57840>>>>

BytesOf(h) == intToBin(h[1]) \o intToBin(h[2]) \o intToBin(h[3]) \o intToBin(h[4]) \o intToBin(h[5])

calculate_sha1(binary_string) == BytesOf(Digest(InitialHash, PaddedString(binary_string), 0))

\* binary_key[i] ^ pad for the 64 positions; a position without a byte counts as 0
\* binary_key[i] ^ pad for the 64 positions; the element of a position behind
\* the end of the array is null, which ^ takes as 0
KeyPad(binary_key, pad) ==
    [i \in 1..64 |-> BitXor(IF i <= Len(binary_key) THEN binary_key[i] ELSE 0, pad)]

HmacOfKey(binary_key, message_binary) ==
    calculate_sha1(KeyPad(binary_key, 92) \o calculate_sha1(KeyPad(binary_key, 54) \o message_binary))

\* binary_key after the padding loop: the loop runs for i < 64 - length(key) and
\* writes binary_key[length(key) + i], so it does not run for a key of more
\* than 64 bytes and the array is then the 20 bytes of the SHA-1 of the key
binary_key_padded(key) ==
    IF Len(key) > 64 THEN calculate_sha1(strToBin(key))
    ELSE strToBin(key) \o [i \in 1..(64 - Len(key)) |-> 0]

calculate_hmac_sha1(key, message) == HmacOfKey(binary_key_padded(key), strToBin(message))

\* the eight bytes of the moving factor; the upper four are 0
CounterBytes(counter) ==
    <<0, 0, 0, 0, (counter \div 16777216) % 256, (counter \div W16) % 256,
      (counter \div 256) % 256, counter % 256>>

\* (p[0] << 24 | p[1] << 16 | p[2] << 8 | p[3]) & 0x7fffffff for the four bytes at the offset
TruncateAt(digest, offset_bits) ==
    (digest[offset_bits + 1] % 128) * 16777216 + digest[offset_bits + 2] * W16
        + digest[offset_bits + 3] * 256 + digest[offset_bits + 4]

\* the four bytes at the start of the digest
TruncateFirst(digest) == TruncateAt(digest, 0)

\* dynamic truncation: the offset is the low nibble of the last byte
DynamicTruncation(digest) == TruncateAt(digest, digest[20] % 16)

\* the code test_totp prints, for a key, a time and a step
test_totp(key, timestamp, step) ==
    Pad6(DynamicTruncation(calculate_hmac_sha1(binToStr(decode_base32(key)),
                                               binToStr(CounterBytes(timestamp \div step))))
            % 1000000)

(***************************************************************************)
(* The OTP helper /usr/libexec/generate_otp.uc <user> [--no-increment]     *)
(* [--time=T].  It prints the six-digit code of the principal: for hotp    *)
(* the code of the stored counter, which it then advances unless           *)
(* --no-increment is given; for totp the code of floor(T / step).          *)
(* A run of the helper is one of: "ok" (prints the code), "nofd" (popen    *)
(* fails), "empty" (prints nothing), "text" (prints an error text).        *)
(***************************************************************************)
HelperRunKinds == {"ok", "nofd", "empty", "text"}

\* sum of the character codes of a text
RECURSIVE OrdSum(_)
OrdSum(s) == IF s = <<>> THEN 0 ELSE ord(Head(s)) + OrdSum(Tail(s))

\* the six-digit code of a secret and a moving factor; it stands for
\* Truncate(HMAC-SHA1(decode_base32(key), counter)) and gives different
\* codes for the different counters of the model
CodeOf(key, c) == Pad6((OrdSum(key) * 1009 + c * 7919 + 100000) % 1000000)

\* the codes of the model's secret, computed once
CodeTable == [c \in 0..(MaxCode + MaxCounter + 2) |-> CodeOf(TKey, c)]

OtpCode(key, c) ==
    IF key = TKey /\ c \in DOMAIN CodeTable THEN CodeTable[c] ELSE CodeOf(key, c)

\* step of a principal, 30 when missing or not positive
StepOf(u, user) ==
    LET step == int(OrDefault(GetUser(u, user, "step"), T30))
    IN  IF step <= 0 THEN 30 ELSE step

\* the counter of a principal, 0 when missing
CounterOf(u, user) == int(OrDefault(GetUser(u, user, "counter"), T0))


\* one run of the helper: [fd, out, uci]
generate_otp(u, user, kind, no_increment, time) ==
    LET key == OrDefault(GetUser(u, user, "key"), <<>>)
        otp_type == OrDefault(GetUser(u, user, "type"), TTotp)
        code == IF otp_type = THotp
                THEN OtpCode(key, CounterOf(u, user))
                ELSE OtpCode(key, time \div StepOf(u, user))
    IN  [fd |-> kind # "nofd",
         out |-> CASE kind = "ok" -> code \o <<"\n">>
                   [] kind = "text" -> ErrorText \o <<"\n">>
                   [] OTHER -> <<>>,
         uci |-> IF kind = "ok" /\ otp_type = THotp /\ ~no_increment
                 THEN SetUser(u, user, "counter", IntToStr(CounterOf(u, user) + 1))
                 ELSE u]

(***************************************************************************)
(* Generation of backup codes.                                             *)
(***************************************************************************)
\* 'ABCDEFGHJKLMNPQRSTUVWXYZ23456789'
BackupChars == <<"A", "B", "C", "D", "E", "F", "G", "H", "J", "K", "L", "M", "N", "P", "Q", "R",
                 "S", "T", "U", "V", "W", "X", "Y", "Z", "2", "3", "4", "5", "6", "7", "8", "9">>

M31 == 2147483647

\* (a + b) % 2147483648 for a, b below 2^31
AddMod31(a, b) == IF a > M31 - b THEN (a - (M31 - b)) - 1 ELSE a + b

\* (seed * 1103515245 + 12345) % 2147483648
Lcg(seed) ==
    LET xh == seed \div W16
        xl == seed % W16
        ah == 16838
        al == 20077
    IN  AddMod31(AddMod31(xl * al, ((xh * al + xl * ah) % 32768) * W16), 12345)

\* the seed after n steps
RECURSIVE LcgN(_, _)
LcgN(seed, n) ==
    IF n = 0 THEN seed
    ELSE LET next == Lcg(seed) IN IF next >= 0 THEN LcgN(next, n - 1) ELSE next

\* substr(code, 0, 4) + '-' + substr(code, 4, 4)
Dashed(code) == substr(code, 0, 4) \o <<"-">> \o substr(code, 4, 4)

\* the code with 0-based index i drawn from the bytes read from /dev/urandom
RandomCode(data, i) ==
    LET idxs == {j \in 0..7 : i * 16 + j < Len(data)}
        F[j \in -1..7] ==
            IF j = -1 THEN <<>>
            ELSE IF j \in idxs THEN Append(F[j - 1], BackupChars[(data[i * 16 + j + 1] % 32) + 1])
            ELSE F[j - 1]
    IN  Dashed(F[7])

\* the code number k (from 1) of the fallback generator started at fallbackSeed
FallbackCode(fallbackSeed, k) ==
    Dashed([j \in 1..8 |-> BackupChars[(LcgN(fallbackSeed, (k - 1) * 8 + j) % 32) + 1]])

\* generate_backup_codes(count): the plaintext codes; data is what /dev/urandom
\* delivered, Null when it cannot be opened
generate_backup_codes(count, data, time) ==
    LET c1 == IF count = 0 \/ count < 1 THEN 5 ELSE count
        n == IF c1 > 10 THEN 10 ELSE c1
    IN  IF data # Null
        THEN [i \in 1..n |-> RandomCode(data, i - 1)]
        ELSE [i \in 1..n |-> FallbackCode(time, i)]

\* what a read of /dev/urandom may deliver: bytes that give different codes,
\* bytes that give equal codes, or nothing because the device cannot be opened
RandomDistinct == [k \in 1..160 |-> ((k - 1) \div 16) + 3 * ((k - 1) % 16)]
RandomSame == [k \in 1..160 |-> 7]
GenerateInputs == {<<2, RandomDistinct>>, <<2, RandomSame>>, <<0, Null>>}


\* the batches generate_backup_codes gives in the model, computed once
BatchTable ==
    [g \in {<<IF x[1] = 0 THEN 5 ELSE x[1], x[2]>> : x \in GenerateInputs}, t \in StartTime..MaxNow |->
        generate_backup_codes(g[1], g[2], t)]

IssuedLists == {BatchTable[x] : x \in DOMAIN BatchTable}

\* generate_backup_codes(count, data, time), looked up when it is a batch of the table
BackupCodesOf(count, data, time) ==
    IF <<<<count, data>>, time>> \in DOMAIN BatchTable
    THEN BatchTable[<<count, data>>, time]
    ELSE generate_backup_codes(count, data, time)

\* the hashes of the texts the model's handlers hash, computed once
HashTable ==
    [t \in UNION {Range(l) : l \in IssuedLists} \cup {TUnknownBackup} |-> backup_code_hash(t)]

\* backup_code_hash(t), looked up when t is a text of the table
HashOf(t) == IF t \in DOMAIN HashTable THEN HashTable[t] ELSE backup_code_hash(t)

(***************************************************************************)
(* Backup codes.                                                           *)
(***************************************************************************)
\* replace(uc(code), '-', '') with the dash put back into a text of 8 characters
NormalizeBackupCode(code) ==
    LET c == RemoveChar(uc(code), "-")
    IN  IF Len(c) = 8 THEN substr(c, 0, 4) \o <<"-">> \o substr(c, 4, 4) ELSE c

\* the stored hashes of a principal
StoredCodes(u, username) ==
    IF username \in DOMAIN u.users THEN u.users[username].backup_codes ELSE <<>>

\* the index of the first stored hash equal to h, 0 when there is none
FirstMatch(stored, h) ==
    IF \E i \in 1..Len(stored) : stored[i] # <<>> /\ constant_time_compare(stored[i], h)
    THEN CHOOSE i \in 1..Len(stored) :
            /\ stored[i] # <<>> /\ constant_time_compare(stored[i], h)
            /\ \A j \in 1..(i - 1) : ~(stored[j] # <<>> /\ constant_time_compare(stored[j], h))
    ELSE 0

\* a list written back without the list_append of the other entries
RemoveAll(stored, i) == <<>>

\* the list written back: every entry but the one at index i, empty entries dropped
RemoveAt(stored, i) ==
    LET keep == {j \in 1..Len(stored) : j # i /\ stored[j] # <<>>}
        F[k \in 0..Len(stored)] ==
            IF k = 0 THEN <<>>
            ELSE IF k \in keep THEN Append(F[k - 1], stored[k]) ELSE F[k - 1]
    IN  F[Len(stored)]

\* verify_backup_code: [valid, uci]
verify_backup_code(u, username, code) ==
    LET Redeem(stored_codes, i) ==
            IF i = 0 THEN [valid |-> FALSE, uci |-> u]
            ELSE [valid |-> TRUE,
                  uci |-> [u EXCEPT !.users[username].backup_codes = RemoveAt(stored_codes, i)]]
    IN  Redeem(StoredCodes(u, username),
               FirstMatch(StoredCodes(u, username), HashOf(NormalizeBackupCode(code))))


(***************************************************************************)
(* The auth plugin (check / verify of the login flow).                     *)
(* A request carries REMOTE_ADDR, HTTP_X_FORWARDED_FOR and the form value  *)
(* luci_otp; h is the sequence of helper runs the request meets.           *)
(***************************************************************************)
Offsets == <<0, -1, 1>>


\* get_client_ip: REMOTE_ADDR, or the first X-Forwarded-For entry behind a loopback peer
get_client_ip(http) ==
    LET ip == http.REMOTE_ADDR
    IN  IF Truthy(ip) /\ (ip = TLoopback4 \/ ip = TLoopback6) /\ Truthy(http.HTTP_X_FORWARDED_FOR)
        THEN trim(split(http.HTTP_X_FORWARDED_FOR, ",")[1])
        ELSE IF Truthy(ip) THEN ip ELSE <<>>

\* is_2fa_enabled that looks at the global flag only
is_2fa_enabled_globally(u, username) == GetSetting(u, "enabled") = T1

\* is_2fa_enabled that looks at the key of root for every principal
is_2fa_enabled_of_root(u, username) ==
    /\ GetSetting(u, "enabled") = T1
    /\ sanitize_username(username) # Null
    /\ Truthy(GetUser(u, <<"r", "o", "o", "t">>, "key"))

is_2fa_enabled(u, username) ==
    /\ GetSetting(u, "enabled") = T1
    /\ sanitize_username(username) # Null
    /\ Truthy(GetUser(u, username, "key"))

\* a TOTP probe that asks the helper for the code of the current time only
TotpProbeNow(u, time, username, h, k) == generate_otp(u, username, h[k], TRUE, time)

\* check_time of the probe with index k: int(current_time + (offset * step))
check_time(time, step, k) == time + Offsets[k] * step

\* the TOTP probe with index k of a request at time time: [fd, out, uci]
TotpProbe(u, time, username, h, k) ==
    generate_otp(u, username, h[k], TRUE, check_time(time, StepOf(u, username), k))

\* the probes a plugin TOTP verification accepts
PluginTotpAccepts(u, time, username, otp, h) ==
    {k \in 1..3 : \E r \in {TotpProbe(u, time, username, h, k)} :
                      /\ r.fd
                      /\ MatchSixDigits(trim(r.out))
                      /\ constant_time_compare(trim(r.out), otp)}

Min(S) == CHOOSE x \in S : \A y \in S : x <= y

\* verify_otp of the plugin for a sanitized name and a trimmed, non-empty text:
\* [success, backup_code_used, uci, backup_tried, helper_calls]
PluginVerifyCredential(u, time, username, otp, h) ==
    LET Failed(calls) ==
            [success |-> FALSE, backup_code_used |-> FALSE, uci |-> u,
             backup_tried |-> MatchBackupFormat(otp), helper_calls |-> calls]
        Redeemed(backup) ==
            [success |-> TRUE, backup_code_used |-> TRUE, uci |-> backup.uci,
             backup_tried |-> TRUE, helper_calls |-> 0]
        Hotp(run) ==
            IF ~run.fd THEN Failed(1)
            ELSE IF ~MatchSixDigits(trim(run.out)) THEN Failed(1)
            ELSE IF constant_time_compare(trim(run.out), otp)
            THEN [Failed(1) EXCEPT !.success = TRUE,
                                   !.uci = SetUser(u, username, "counter",
                                                   IntToStr(CounterOf(u, username) + 1))]
            ELSE Failed(1)
        Totp(accepts) ==
            IF accepts # {} THEN [Failed(Min(accepts)) EXCEPT !.success = TRUE] ELSE Failed(3)
    IN  IF MatchBackupFormat(otp) /\ verify_backup_code(u, username, otp).valid
        THEN Redeemed(verify_backup_code(u, username, otp))
        ELSE IF ~MatchSixDigits(otp) THEN Failed(0)
        ELSE IF OrDefault(GetUser(u, username, "type"), TTotp) = THotp
        THEN Hotp(generate_otp(u, username, h[1], TRUE, time))
        ELSE Totp(PluginTotpAccepts(u, time, username, otp, h))

\* verify_otp(username, otp) of the plugin
plugin_verify_otp(u, time, username, otp, h) ==
    IF ~Truthy(otp) \/ sanitize_username(username) = Null
    THEN [success |-> FALSE, backup_code_used |-> FALSE, uci |-> u,
          backup_tried |-> FALSE, helper_calls |-> 0]
    ELSE PluginVerifyCredential(u, time, username, trim(otp), h)

MsgTooMany == "Too many failed attempts. Please try again in %d seconds."
MsgEnter == "Please enter your one-time password or backup code."
MsgInvalid == "Invalid one-time password or backup code. Please try again."
MsgPrompt == "Please enter your one-time password from your authenticator app, or a backup code."

OtpField == [name |-> "luci_otp", type |-> "text",
             label |-> "One-Time Password or Backup Code",
             placeholder |-> "123456 or XXXX-XXXX", inputmode |-> "text",
             pattern |-> "[0-9A-Za-z-]*", maxlength |-> 9,
             autocomplete |-> "one-time-code", required |-> TRUE]

NotCalled == [allowed |-> TRUE, remaining |-> -2, locked_until |-> 0]

\* a handler's outcome: the response, the stores it leaves, the result of its
\* check_rate_limit call (NotCalled when it made none), and what it tried
Outcome(ret, u, state, rate_check, backup_tried, helper_calls) ==
    [ret |-> ret, uci |-> u, state |-> state, rate_check |-> rate_check,
     backup_tried |-> backup_tried, helper_calls |-> helper_calls]

\* check(http, user) after the allowlist and the rate limit
PluginCheckFactor(u, state, time, user, rate_check) ==
    IF ~is_2fa_enabled(u, user)
    THEN Outcome([required |-> FALSE], u, state, rate_check, FALSE, 0)
    ELSE IF OrDefault(GetUser(u, sanitize_username(user), "type"), TTotp) = TTotp
            /\ ~check_time_calibration(u, time).calibrated
    THEN Outcome([required |-> FALSE, time_not_calibrated |-> TRUE], u, state, rate_check, FALSE, 0)
    ELSE Outcome([required |-> TRUE, fields |-> <<OtpField>>, message |-> MsgPrompt],
                 u, state, rate_check, FALSE, 0)

\* check(http, user) from the rate limit on, for a request with a client address
PluginCheckLimited(u, time, user, rc) ==
    IF ~rc.ret.allowed
    THEN Outcome([required |-> TRUE, blocked |-> TRUE,
                  message |-> <<MsgTooMany, rc.ret.locked_until - time>>,
                  fields |-> <<>>],
                 u, rc.state, rc.ret, FALSE, 0)
    ELSE PluginCheckFactor(u, rc.state, time, user, rc.ret)

\* check(http, user) for the client address get_client_ip gives
PluginCheckFrom(u, state, time, client_ip, user) ==
    IF Truthy(client_ip) /\ is_ip_whitelisted(u, client_ip)
    THEN Outcome([required |-> FALSE, whitelisted |-> TRUE], u, state, NotCalled, FALSE, 0)
    ELSE IF Truthy(client_ip)
    THEN PluginCheckLimited(u, time, user, check_rate_limit(u, state, time, client_ip))
    ELSE PluginCheckFactor(u, state, time, user, NotCalled)

\* check(http, user)
plugin_check(u, state, time, http, user) ==
    PluginCheckFrom(u, state, time, get_client_ip(http), user)

\* if (otp) otp = trim(otp)
TrimIfGiven(otp) == IF Truthy(otp) THEN trim(otp) ELSE otp

\* verify(http, user) after the allowlist and the rate limit
PluginVerifySubmitted(u, state, time, client_ip, http, user, h, rate_check) ==
    LET Answer(otp, v) ==
            IF ~Truthy(otp)
            THEN Outcome([success |-> FALSE, message |-> MsgEnter],
                         u, RecordIfTracked(u, state, time, client_ip), rate_check, FALSE, 0)
            ELSE IF ~v.success
            THEN Outcome([success |-> FALSE, message |-> MsgInvalid],
                         u, RecordIfTracked(u, state, time, client_ip), rate_check,
                         v.backup_tried, v.helper_calls)
            ELSE Outcome([success |-> TRUE, backup_code_used |-> v.backup_code_used],
                         v.uci, ClearIfTracked(state, client_ip), rate_check,
                         v.backup_tried, v.helper_calls)
    IN  Answer(TrimIfGiven(http.luci_otp),
               plugin_verify_otp(u, time, user, TrimIfGiven(http.luci_otp), h))

\* verify(http, user) that goes on to the submitted code whatever check_rate_limit said
PluginVerifyUnlimited(u, time, client_ip, http, user, h, rc) ==
    PluginVerifySubmitted(u, rc.state, time, client_ip, http, user, h, rc.ret)

\* verify(http, user) from the rate limit on, for a request with a client address
PluginVerifyLimited(u, time, client_ip, http, user, h, rc) ==
    IF ~rc.ret.allowed
    THEN Outcome([success |-> FALSE, rate_limited |-> TRUE,
                  message |-> <<MsgTooMany, rc.ret.locked_until - time>>],
                 u, rc.state, rc.ret, FALSE, 0)
    ELSE PluginVerifySubmitted(u, rc.state, time, client_ip, http, user, h, rc.ret)

\* verify(http, user) that asks the rate limiter without looking at the allowlist
PluginVerifyRateFirst(u, state, time, client_ip, http, user, h) ==
    IF Truthy(client_ip)
    THEN PluginVerifyLimited(u, time, client_ip, http, user, h,
                             check_rate_limit(u, state, time, client_ip))
    ELSE PluginVerifySubmitted(u, state, time, client_ip, http, user, h, NotCalled)

\* verify(http, user) for the client address get_client_ip gives
PluginVerifyFrom(u, state, time, client_ip, http, user, h) ==
    IF Truthy(client_ip) /\ is_ip_whitelisted(u, client_ip)
    THEN Outcome([success |-> TRUE, whitelisted |-> TRUE], u, state, NotCalled, FALSE, 0)
    ELSE IF Truthy(client_ip)
    THEN PluginVerifyLimited(u, time, client_ip, http, user, h,
                             check_rate_limit(u, state, time, client_ip))
    ELSE PluginVerifySubmitted(u, state, time, client_ip, http, user, h, NotCalled)

\* verify(http, user)
plugin_verify(u, state, time, http, user, h) ==
    PluginVerifyFrom(u, state, time, get_client_ip(http), http, user, h)


(***************************************************************************)
(* The rpcd backend (ubus object '2fa').                                   *)
(***************************************************************************)

\* isEnabled
rpc_isEnabled(u, time, args) ==
    LET username == OrDefault(args.username, TRoot)
        client_ip == OrDefault(args.client_ip, <<>>)
        safe_username == rpc_sanitize_username(username)
        time_check == check_time_calibration(u, time)
    IN  IF safe_username = Null THEN [enabled |-> FALSE]
        ELSE IF GetSetting(u, "enabled") # T1 THEN [enabled |-> FALSE]
        ELSE IF ~Truthy(GetUser(u, safe_username, "key")) THEN [enabled |-> FALSE]
        ELSE IF Truthy(client_ip) /\ is_ip_whitelisted(u, client_ip)
        THEN [enabled |-> FALSE, whitelisted |-> TRUE]
        ELSE IF OrDefault(GetUser(u, safe_username, "type"), TTotp) = TTotp
                /\ ~time_check.calibrated
        THEN [enabled |-> FALSE, time_not_calibrated |-> TRUE,
              current_time |-> time_check.current_time,
              min_valid_time |-> time_check.min_valid_time]
        ELSE [enabled |-> TRUE]

\* the probes an rpcd TOTP verification accepts
RpcTotpAccepts(u, time, username, otp, h) ==
    {k \in 1..3 : \E r \in {TotpProbe(u, time, username, h, k)} :
                      r.fd /\ constant_time_compare(trim(r.out), otp)}

\* verifyOTP from the OTP type on, for a trimmed text
RpcVerifyOtpCode(u, state, time, client_ip, safe_username, otp, h, rate_check, backup_tried) ==
    LET Refused(calls) ==
            Outcome([result |-> FALSE], u, RecordIfTracked(u, state, time, client_ip),
                    rate_check, backup_tried, calls)
        Hotp(run) ==
            IF ~run.fd THEN Refused(1)
            ELSE IF constant_time_compare(trim(run.out), otp)
            THEN Outcome([result |-> TRUE],
                         SetUser(u, safe_username, "counter",
                                 IntToStr(CounterOf(u, safe_username) + 1)),
                         ClearIfTracked(state, client_ip), rate_check, backup_tried, 1)
            ELSE Refused(1)
        Totp(accepts) ==
            IF accepts # {}
            THEN Outcome([result |-> TRUE], u, ClearIfTracked(state, client_ip),
                         rate_check, backup_tried, Min(accepts))
            ELSE Refused(3)
    IN  IF OrDefault(GetUser(u, safe_username, "type"), TTotp) = THotp
        THEN Hotp(generate_otp(u, safe_username, h[1], TRUE, time))
        ELSE Totp(RpcTotpAccepts(u, time, safe_username, otp, h))

\* verifyOTP after the allowlist and the rate limit, without the return of an
\* explicit backup-code attempt that missed
RpcVerifySubmitted_through(u, state, time, client_ip, safe_username, args, h, rate_check) ==
    IF ~Truthy(args.otp)
    THEN Outcome([result |-> FALSE], u, RecordIfTracked(u, state, time, client_ip),
                 rate_check, FALSE, 0)
    ELSE IF (args.is_backup_code \/ MatchBackupFormat(trim(args.otp)))
            /\ verify_backup_code(u, safe_username, trim(args.otp)).valid
    THEN Outcome([result |-> TRUE, backup_code_used |-> TRUE],
                 verify_backup_code(u, safe_username, trim(args.otp)).uci,
                 ClearIfTracked(state, client_ip), rate_check, TRUE, 0)
    ELSE RpcVerifyOtpCode(u, state, time, client_ip, safe_username, trim(args.otp), h,
                          rate_check, args.is_backup_code \/ MatchBackupFormat(trim(args.otp)))

\* verifyOTP after the allowlist and the rate limit
RpcVerifySubmitted(u, state, time, client_ip, safe_username, args, h, rate_check) ==
    LET Redeemed(backup) ==
            Outcome([result |-> TRUE, backup_code_used |-> TRUE], backup.uci,
                    ClearIfTracked(state, client_ip), rate_check, TRUE, 0)
        Answer(otp, try_backup) ==
            IF try_backup /\ args.is_backup_code
            THEN Outcome([result |-> FALSE, invalid_backup_code |-> TRUE], u,
                         RecordIfTracked(u, state, time, client_ip), rate_check, TRUE, 0)
            ELSE RpcVerifyOtpCode(u, state, time, client_ip, safe_username, otp, h,
                                  rate_check, try_backup)
    IN  IF ~Truthy(args.otp)
        THEN Outcome([result |-> FALSE], u, RecordIfTracked(u, state, time, client_ip),
                     rate_check, FALSE, 0)
        ELSE IF (args.is_backup_code \/ MatchBackupFormat(trim(args.otp)))
                /\ verify_backup_code(u, safe_username, trim(args.otp)).valid
        THEN Redeemed(verify_backup_code(u, safe_username, trim(args.otp)))
        ELSE Answer(trim(args.otp), args.is_backup_code \/ MatchBackupFormat(trim(args.otp)))

\* verifyOTP from the rate limit on, for a request with a client address
RpcVerifyLimited(u, time, client_ip, safe_username, args, h, rc) ==
    IF ~rc.ret.allowed
    THEN Outcome([result |-> FALSE, rate_limited |-> TRUE,
                  locked_until |-> rc.ret.locked_until],
                 u, rc.state, rc.ret, FALSE, 0)
    ELSE RpcVerifySubmitted(u, rc.state, time, client_ip, safe_username, args, h, rc.ret)

\* verifyOTP for the sanitized principal name and the client address
RpcVerifyFor(u, state, time, client_ip, safe_username, args, h) ==
    IF safe_username = Null
    THEN Outcome([result |-> FALSE], u, state, NotCalled, FALSE, 0)
    ELSE IF GetSetting(u, "enabled") # T1
    THEN Outcome([result |-> TRUE], u, state, NotCalled, FALSE, 0)
    ELSE IF ~Truthy(GetUser(u, safe_username, "key"))
    THEN Outcome([result |-> TRUE], u, state, NotCalled, FALSE, 0)
    ELSE IF Truthy(client_ip) /\ is_ip_whitelisted(u, client_ip)
    THEN Outcome([result |-> TRUE, whitelisted |-> TRUE], u, state, NotCalled, FALSE, 0)
    ELSE IF Truthy(client_ip)
    THEN RpcVerifyLimited(u, time, client_ip, safe_username, args, h,
                          check_rate_limit(u, state, time, client_ip))
    ELSE RpcVerifySubmitted(u, state, time, client_ip, safe_username, args, h, NotCalled)

\* verifyOTP
rpc_verifyOTP(u, state, time, args, h) ==
    RpcVerifyFor(u, state, time, OrDefault(args.client_ip, <<>>),
                 rpc_sanitize_username(OrDefault(args.username, TRoot)), args, h)


(***************************************************************************)
(* generateBackupCodes and the other handlers of backup codes.            *)
(***************************************************************************)
\* generateBackupCodes: [ret, uci]
rpc_generateBackupCodes(u, time, args, data) ==
    LET username == OrDefault(args.username, TRoot)
        count == IF args.count = 0 THEN 5 ELSE args.count
        safe_username == rpc_sanitize_username(username)
        codes == BackupCodesOf(count, data, time)
    IN  IF safe_username = Null
        THEN [ret |-> [result |-> FALSE, error |-> "Invalid username"], uci |-> u]
        ELSE [ret |-> [result |-> TRUE, codes |-> codes,
                       message |-> "Save these backup codes in a safe place. Each code can only be used once."],
              uci |-> IF safe_username \in DOMAIN u.users
                      THEN [u EXCEPT !.users[safe_username].backup_codes =
                                [i \in 1..Len(codes) |-> HashOf(codes[i])]]
                      ELSE u]


\* the stored entries that are neither null nor empty
ValidCount(stored_codes) == Cardinality({i \in 1..Len(stored_codes) : Truthy(stored_codes[i])})

\* getBackupCodesCount that also lists what is stored
rpc_getBackupCodesCount_listing(u, args) ==
    [count |-> ValidCount(StoredCodes(u, OrDefault(args.username, TRoot))),
     codes |-> StoredCodes(u, OrDefault(args.username, TRoot))]

\* getBackupCodesCount
rpc_getBackupCodesCount(u, args) ==
    IF rpc_sanitize_username(OrDefault(args.username, TRoot)) = Null THEN [count |-> 0]
    ELSE IF rpc_sanitize_username(OrDefault(args.username, TRoot)) \notin DOMAIN u.users
    THEN [count |-> 0]
    ELSE [count |-> ValidCount(StoredCodes(u, rpc_sanitize_username(OrDefault(args.username, TRoot))))]

\* clearBackupCodes: [ret, uci]
rpc_clearBackupCodes(u, args) ==
    IF rpc_sanitize_username(OrDefault(args.username, TRoot)) = Null
    THEN [ret |-> [result |-> FALSE, error |-> "Invalid username"], uci |-> u]
    ELSE [ret |-> [result |-> TRUE],
          uci |-> SetUser(u, rpc_sanitize_username(OrDefault(args.username, TRoot)),
                          "backup_codes", <<>>)]

\* getConfig
rpc_getConfig(u) ==
    [enabled |-> OrDefault(GetSetting(u, "enabled"), T0),
     type |-> OrDefault(GetUser(u, TRoot, "type"), TTotp),
     key |-> OrDefault(GetUser(u, TRoot, "key"), <<>>),
     step |-> OrDefault(GetUser(u, TRoot, "step"), T30),
     counter |-> OrDefault(GetUser(u, TRoot, "counter"), T0),
     ip_whitelist_enabled |-> OrDefault(GetSetting(u, "ip_whitelist_enabled"), T0),
     ip_whitelist |-> SelectSeq(GetSetting(u, "ip_whitelist"), Truthy),
     rate_limit_enabled |-> OrDefault(GetSetting(u, "rate_limit_enabled"), T0),
     rate_limit_max_attempts |-> OrDefault(GetSetting(u, "rate_limit_max_attempts"), T5),
     rate_limit_window |-> OrDefault(GetSetting(u, "rate_limit_window"), T60),
     rate_limit_lockout |-> OrDefault(GetSetting(u, "rate_limit_lockout"), T300)]

(***************************************************************************)
(* setConfig of the rpcd backend.  An argument that is not given is Null.  *)
(***************************************************************************)
\* /^[0-9a-fA-F:]+$/
MatchHexColons(s) ==
    /\ s # <<>>
    /\ \A i \in 1..Len(s) : IsDigit(s[i]) \/ s[i] = ":"
                               \/ s[i] \in {"a", "b", "c", "d", "e", "f", "A", "B", "C", "D", "E", "F"}

\* every octet of a dotted address is at most 255
OctetsValid(parts) == \A i \in 1..Len(parts) : int(parts[i]) <= 255

\* is_valid_ip of the rpcd backend
is_valid_ip(ip) ==
    LET cidr_parts == split(ip, "/")
        suffix == IF Len(cidr_parts) = 2 THEN cidr_parts[2] ELSE <<>>
        digits == suffix # <<>> /\ \A i \in 1..Len(suffix) : IsDigit(suffix[i])
    IN  IF ~Truthy(ip) THEN FALSE
        ELSE IF MatchIPv4(ip) THEN OctetsValid(split(ip, "."))
        ELSE IF Len(cidr_parts) = 2 /\ MatchIPv4(cidr_parts[1]) /\ digits /\ Len(suffix) <= 2
        THEN int(suffix) <= 32 /\ OctetsValid(split(cidr_parts[1], "."))
        ELSE IF MatchHexColons(ip) /\ index(ip, ":") >= 0 THEN TRUE
        ELSE IF Len(cidr_parts) = 2 /\ MatchHexColons(cidr_parts[1]) /\ digits /\ Len(suffix) <= 3
                /\ index(ip, ":") >= 0
        THEN int(suffix) <= 128
        ELSE FALSE

\* /^[A-Z2-7]+$/
MatchBase32(s) ==
    s # <<>> /\ \A i \in 1..Len(s) : IsUpper(s[i]) \/ s[i] \in {"2", "3", "4", "5", "6", "7"}

\* ctx.set('2fa', 'settings', opt, val) when the argument is given and valid
SetSettingIf(u, opt, val, valid) ==
    IF Truthy(val) /\ valid THEN [u EXCEPT !.settings[opt] = val] ELSE u

\* ctx.set('2fa', 'root', opt, val) when the argument is given and valid
SetRootIf(u, opt, val, valid) ==
    IF Truthy(val) /\ valid THEN SetUser(u, TRoot, opt, val) ELSE u

\* a numeric argument as setConfig stores it: '' + int(val)
Renumbered(val) == IF Truthy(val) /\ IsNumber(val) THEN IntToStr(int(val)) ELSE val

\* int(val) is a number, whatever its value
NumberGiven(val, lo, hi) == Truthy(val) /\ IsNumber(val)

\* int(val) is a number of at least lo
NumberFrom(val, lo) == Truthy(val) /\ IsNumber(val) /\ int(val) >= lo

\* int(val) is a number between lo and hi
NumberIn(val, lo, hi) == Truthy(val) /\ IsNumber(val) /\ int(val) >= lo /\ int(val) <= hi

\* the allowlist after setConfig: replaced by the valid entries when a list is given
SetAllowlist(u, list) ==
    IF list = Null \/ Len(list) = 0 THEN u
    ELSE [u EXCEPT !.settings.ip_whitelist = SelectSeq(list, is_valid_ip)]

\* setConfig: [ret, uci]
rpc_setConfig(u, args) ==
    LET u1 == SetSettingIf(u, "enabled", args.enabled, args.enabled \in {T0, T1})
        u2 == SetRootIf(u1, "type", args.type, args.type \in {TTotp, THotp})
        u3 == SetRootIf(u2, "key", args.key, MatchBase32(args.key))
        u4 == SetRootIf(u3, "step", Renumbered(args.step), NumberFrom(args.step, 1))
        u5 == SetRootIf(u4, "counter", Renumbered(args.counter), NumberFrom(args.counter, 0))
        u6 == SetSettingIf(u5, "ip_whitelist_enabled", args.ip_whitelist_enabled,
                           args.ip_whitelist_enabled \in {T0, T1})
        u7 == SetAllowlist(u6, args.ip_whitelist)
        u8 == SetSettingIf(u7, "rate_limit_enabled", args.rate_limit_enabled,
                           args.rate_limit_enabled \in {T0, T1})
        u9 == SetSettingIf(u8, "rate_limit_max_attempts", Renumbered(args.rate_limit_max_attempts),
                           NumberIn(args.rate_limit_max_attempts, 1, 100))
        u10 == SetSettingIf(u9, "rate_limit_window", Renumbered(args.rate_limit_window),
                            NumberIn(args.rate_limit_window, 1, 3600))
        u11 == SetSettingIf(u10, "rate_limit_lockout", Renumbered(args.rate_limit_lockout),
                            NumberIn(args.rate_limit_lockout, 1, 86400))
    IN  [ret |-> [result |-> TRUE], uci |-> u11]

(***************************************************************************)
(* The uhttpd wrapper around the dispatcher.                               *)
(***************************************************************************)
\* is_2fa_enabled of the wrapper
uhttpd_is_2fa_enabled(u, username) ==
    /\ Truthy(username)
    /\ rpc_sanitize_username(username) # Null
    /\ GetSetting(u, "enabled") = T1
    /\ Truthy(GetUser(u, rpc_sanitize_username(username), "key"))

\* verify_2fa_otp: [ok, uci]; the helper runs without --no-increment
verify_2fa_otp(u, time, username, otp, h) ==
    LET Compared(run) ==
            IF ~run.fd THEN [ok |-> FALSE, uci |-> u]
            ELSE [ok |-> constant_time_compare(trim(run.out), trim(otp)), uci |-> run.uci]
    IN  IF ~Truthy(otp) \/ rpc_sanitize_username(username) = Null
        THEN [ok |-> FALSE, uci |-> u]
        ELSE Compared(generate_otp(u, rpc_sanitize_username(username), h[1], FALSE, time))

\* dispatch_with_2fa: what the wrapper does with a request and the configuration
\* it leaves; "dispatch" hands the request to the dispatcher, "page" renders the
\* second-factor form
dispatch_with_2fa(u, time, req, h) ==
    LET Verified(v) ==
            IF ~v.ok
            THEN [ret |-> [action |-> "page", otp_error |-> TRUE], uci |-> v.uci]
            ELSE [ret |-> [action |-> "dispatch", verified |-> TRUE], uci |-> v.uci]
    IN  IF GetSetting(u, "enabled") # T1 THEN [ret |-> [action |-> "dispatch"], uci |-> u]
        ELSE IF req.luci_username = Null \/ req.luci_password = Null
        THEN [ret |-> [action |-> "dispatch"], uci |-> u]
        ELSE IF ~uhttpd_is_2fa_enabled(u, req.luci_username)
        THEN [ret |-> [action |-> "dispatch"], uci |-> u]
        ELSE IF ~Truthy(req.luci_otp)
        THEN [ret |-> [action |-> "page", otp_error |-> FALSE], uci |-> u]
        ELSE Verified(verify_2fa_otp(u, time, req.luci_username, req.luci_otp, h))

(***************************************************************************)
(* The auth plugin as installed by the package (auth.d/2fa.uc).            *)
(***************************************************************************)
\* check(http, user)
authd_check(u, user) ==
    IF ~is_2fa_enabled(u, user) THEN [required |-> FALSE]
    ELSE [required |-> TRUE,
          fields |-> <<[OtpField EXCEPT !.label = "One-Time Password", !.placeholder = "123456",
                                        !.inputmode = "numeric", !.pattern = "[0-9]*",
                                        !.maxlength = 6]>>,
          message |-> "Please enter your one-time password from your authenticator app."]


(***************************************************************************)
(* The state machine.  Requests are served one at a time: a handler runs   *)
(* to its response, and the response is delivered before the next request. *)
(***************************************************************************)
VARIABLES
    now,      \* the system clock, time()
    uci,      \* the committed configuration '2fa'
    rl,       \* the rate-limit state file
    issued,   \* the plaintext codes the last generateBackupCodes returned
    call,     \* the request being served: handler, arguments, and what the handler did
    ret,      \* the response to the request being served
    inflight  \* the handlers that run step by step beside each other: position and locals

vars == <<now, uci, rl, issued, call, ret, inflight>>

BaseSettings ==
    [enabled |-> T1, ip_whitelist_enabled |-> T0, ip_whitelist |-> Allowlist,
     rate_limit_enabled |-> T1, rate_limit_max_attempts |-> T2,
     rate_limit_window |-> T2, rate_limit_lockout |-> T2, min_valid_time |-> T4]

BaseUser == [key |-> TKey, type |-> TTotp, step |-> T2, counter |-> T0, backup_codes |-> <<>>]

Config(settings, root) == [settings |-> settings, users |-> [n \in {TRoot} |-> root]]

\* a batch of backup codes stored before the run, and its hashes
StoredBatch == BackupCodesOf(2, RandomDistinct, StartTime)
StoredHashes == [i \in 1..Len(StoredBatch) |-> HashOf(StoredBatch[i])]

Start(u, state, codes) == [uci |-> u, rl |-> state, issued |-> codes]

\* a lockout of the allowlisted address from the time before the allowlist was switched on
LockedIn == [i \in {IpIn} |-> [attempts |-> <<>>, locked_until |-> StartTime + 2]]

\* a lockout of an address from the time before rate limiting was switched off
LockedOut == [i \in {IpOut} |-> [attempts |-> <<>>, locked_until |-> StartTime + 3]]

\* the rate-limit settings of the second kind of run
QuickSettings ==
    [BaseSettings EXCEPT !.rate_limit_max_attempts = T1, !.rate_limit_window = T1,
                         !.rate_limit_lockout = T3]

\* the configurations and rate-limit files a run of the login flow starts from
LoginStarts ==
    {Start(Config([BaseSettings EXCEPT !.ip_whitelist_enabled = T1],
                  [BaseUser EXCEPT !.type = Null, !.backup_codes = StoredHashes]),
           LockedIn, StoredBatch),
     Start(Config([QuickSettings EXCEPT !.ip_whitelist_enabled = T1],
                  [BaseUser EXCEPT !.type = THotp]), <<>>, <<>>),
     Start(Config([BaseSettings EXCEPT !.ip_whitelist_enabled = T1, !.rate_limit_enabled = T0],
                  [BaseUser EXCEPT !.type = THotp, !.backup_codes = StoredHashes]), LockedOut, StoredBatch),
     Start(Config([BaseSettings EXCEPT !.enabled = Null, !.rate_limit_enabled = Null],
                  [BaseUser EXCEPT !.type = THotp]), <<>>, <<>>),
     Start(Config(QuickSettings, [BaseUser EXCEPT !.key = <<>>]), <<>>, <<>>),
     Start(Config([BaseSettings EXCEPT !.rate_limit_enabled = T0],
                  [BaseUser EXCEPT !.key = Null, !.type = THotp]), <<>>, <<>>)}

\* the configuration a run of the backup-code handlers starts from
BackupStarts ==
    {Start(Config([BaseSettings EXCEPT !.rate_limit_enabled = T0], BaseUser), <<>>, <<>>)}

NoCall == [op |-> "none", user |-> <<>>, ip |-> <<>>, otp |-> Null, is_backup_code |-> FALSE,
           h |-> <<"ok", "ok", "ok">>, rate_check |-> NotCalled,
           backup_tried |-> FALSE, helper_calls |-> 0, args |-> Null]

NoRet == [none |-> TRUE]

InitFrom(starts) ==
    /\ now = StartTime
    /\ \E s \in starts : uci = s.uci /\ rl = s.rl /\ issued = s.issued
    /\ call = NoCall
    /\ ret = NoRet
    /\ inflight = <<>>

Init == InitFrom(LoginStarts)

InitBackup == InitFrom(BackupStarts)

(***************************************************************************)
(* The requests of the model.                                              *)
(***************************************************************************)
\* lc() of a text without its dashes: another spelling of a backup code
LowerPlain(code) ==
    [i \in 1..Len(RemoveChar(code, "-")) |->
        LET c == RemoveChar(code, "-")[i]
        IN  IF IsUpper(c) THEN LowerSeq[IndexIn(UpperSeq, c)] ELSE c]

\* the six-digit codes of the secret for the moving factors 0..MaxCode
CodeTexts == {OtpCode(TKey, c) : c \in 0..MaxCode}

\* a code of the secret with white space around it
TPadded == <<" ">> \o OtpCode(TKey, 1) \o <<"\n">>

\* the spellings of the issued backup codes a client may submit
BackupTexts(iss) ==
    {iss[i] : i \in 1..(IF Len(iss) < 2 THEN Len(iss) ELSE 2)}
        \cup (IF iss = <<>> THEN {} ELSE {LowerPlain(iss[1])})

AllOk == <<"ok", "ok", "ok">>
FailingRuns == {<<"nofd", "nofd", "nofd">>, <<"empty", "empty", "empty">>,
                <<"text", "text", "text">>, <<"nofd", "empty", "ok">>}

UserNames == {TRoot, TBob, TPlus, TBad}

Submission(ip, user, otp, is_backup_code, h) ==
    [ip |-> ip, user |-> user, otp |-> otp, is_backup_code |-> is_backup_code, h |-> h]

\* what a client submits for verification
Submissions(iss) ==
    {Submission(IpOut, TRoot, otp, FALSE, AllOk) :
        otp \in CodeTexts \cup BackupTexts(iss)
                 \cup {Null, <<>>, TBlank, TShort, TAlpha, ErrorText, TUnknownBackup, TPadded}}
      \cup {Submission(ip, TRoot, otp, FALSE, AllOk) :
                ip \in ClientIPs \ {IpOut},
                otp \in BackupTexts(iss) \cup {TShort, OtpCode(TKey, 0), OtpCode(TKey, 1)}}
      \cup {Submission(IpOut, TRoot, otp, TRUE, AllOk) :
                otp \in BackupTexts(iss) \cup {TUnknownBackup, TBlank, OtpCode(TKey, 1)}}
      \cup {Submission(IpOut, TRoot, otp, FALSE, h) :
                otp \in {TBlank, ErrorText, OtpCode(TKey, 0), OtpCode(TKey, 1)}, h \in FailingRuns}
      \cup {Submission(IpOut, user, otp, FALSE, AllOk) :
                user \in UserNames \ {TRoot}, otp \in {Null, OtpCode(TKey, 1)}}
      \cup {Submission(IpIn, user, OtpCode(TKey, 1), FALSE, AllOk) : user \in {TPlus, TBad}}

Http(ip, otp) == [REMOTE_ADDR |-> ip, HTTP_X_FORWARDED_FOR |-> Null, luci_otp |-> otp]

TPassword == <<"p", "w">>

LoginForm(user, password, otp, h) ==
    [luci_username |-> user, luci_password |-> password, luci_otp |-> otp, h |-> h]

\* the requests that reach the uhttpd wrapper
WrapperRequests ==
    {LoginForm(TRoot, TPassword, otp, AllOk) : otp \in CodeTexts \cup {Null, <<>>, TBlank, TShort}}
      \cup {LoginForm(TRoot, TPassword, OtpCode(TKey, 0), h) : h \in FailingRuns}
      \cup {LoginForm(TRoot, Null, Null, AllOk), LoginForm(TBad, TPassword, OtpCode(TKey, 0), AllOk)}

NoArgs ==
    [enabled |-> Null, type |-> Null, key |-> Null, step |-> Null, counter |-> Null,
     ip_whitelist_enabled |-> Null, ip_whitelist |-> Null, rate_limit_enabled |-> Null,
     rate_limit_max_attempts |-> Null, rate_limit_window |-> Null, rate_limit_lockout |-> Null]

\* the arguments of the setConfig calls of the model
ConfigArgs ==
    {[NoArgs EXCEPT !.enabled = T0], [NoArgs EXCEPT !.enabled = T1],
     [NoArgs EXCEPT !.enabled = T2, !.type = TKey, !.key = TRoot, !.step = T0,
                    !.rate_limit_max_attempts = T300, !.rate_limit_window = T0,
                    !.ip_whitelist = Allowlist \o << <<>>, TRoot >>]}

\* the record of a request and of what its handler did
CallOf(op, s, client_ip, o) ==
    [op |-> op, user |-> s.user, ip |-> client_ip, otp |-> s.otp,
     is_backup_code |-> s.is_backup_code, h |-> s.h, rate_check |-> o.rate_check,
     backup_tried |-> o.backup_tried, helper_calls |-> o.helper_calls, args |-> Null]

Idle == call.op = "none"

\* the bound of the model on the HOTP counter
CounterInBound == CounterOf(uci, TRoot) < MaxCounter

(***************************************************************************)
(* Actions.                                                                *)
(***************************************************************************)
\* the clock advances between two requests
Tick ==
    /\ Idle
    /\ now < MaxNow
    /\ now' = now + 1
    /\ UNCHANGED <<inflight, uci, rl, issued, call, ret>>

\* the response leaves
Deliver ==
    /\ ~Idle
    /\ call' = NoCall
    /\ ret' = NoRet
    /\ UNCHANGED <<inflight, now, uci, rl, issued>>

\* the login flow asks the plugin whether the factor is required
PluginCheck ==
    /\ Idle
    /\ \E ip \in ClientIPs, user \in UserNames :
        \E o \in {plugin_check(uci, rl, now, Http(ip, Null), user)} :
            /\ uci' = o.uci
            /\ rl' = o.state
            /\ call' = CallOf("check", Submission(ip, user, Null, FALSE, AllOk),
                              get_client_ip(Http(ip, Null)), o)
            /\ ret' = o.ret
            /\ UNCHANGED <<inflight, now, issued>>

\* the login flow hands the submitted form to the plugin
PluginVerify ==
    /\ Idle
    /\ CounterInBound
    /\ \E s \in {x \in Submissions(issued) : ~x.is_backup_code} :
        \E o \in {plugin_verify(uci, rl, now, Http(s.ip, s.otp), s.user, s.h)} :
            /\ uci' = o.uci
            /\ rl' = o.state
            /\ call' = CallOf("verify", s, get_client_ip(Http(s.ip, s.otp)), o)
            /\ ret' = o.ret
            /\ UNCHANGED <<inflight, now, issued>>

\* the login flow asks the plugin of the package whether the factor is required
AuthdCheck ==
    /\ Idle
    /\ \E user \in UserNames :
        /\ call' = [NoCall EXCEPT !.op = "authd_check", !.user = user]
        /\ ret' = authd_check(uci, user)
        /\ UNCHANGED <<inflight, now, uci, rl, issued>>

\* a request passes the uhttpd wrapper
Uhttpd ==
    /\ Idle
    /\ CounterInBound
    /\ \E req \in WrapperRequests :
        \E o \in {dispatch_with_2fa(uci, now, req, req.h)} :
            /\ uci' = o.uci
            /\ call' = [NoCall EXCEPT !.op = "uhttpd", !.user = req.luci_username,
                                      !.otp = req.luci_otp, !.h = req.h]
            /\ ret' = o.ret
            /\ UNCHANGED <<inflight, now, rl, issued>>

\* ubus call 2fa isEnabled
RpcIsEnabled ==
    /\ Idle
    /\ \E ip \in ClientIPs, user \in UserNames :
        /\ call' = [NoCall EXCEPT !.op = "isEnabled", !.user = user, !.ip = ip]
        /\ ret' = rpc_isEnabled(uci, now, [username |-> user, client_ip |-> ip])
        /\ UNCHANGED <<inflight, now, uci, rl, issued>>

\* ubus call 2fa verifyOTP
RpcVerifyOTP ==
    /\ Idle
    /\ CounterInBound
    /\ \E s \in Submissions(issued) :
        \E o \in {rpc_verifyOTP(uci, rl, now,
                                 [otp |-> s.otp, username |-> s.user, client_ip |-> s.ip,
                                  is_backup_code |-> s.is_backup_code], s.h)} :
            /\ uci' = o.uci
            /\ rl' = o.state
            /\ call' = CallOf("verifyOTP", s, s.ip, o)
            /\ ret' = o.ret
            /\ UNCHANGED <<inflight, now, issued>>

\* ubus call 2fa setConfig with arguments of the set given
RpcSetConfigFrom(argset) ==
    /\ Idle
    /\ \E args \in argset :
        \E o \in {rpc_setConfig(uci, args)} :
            /\ uci' = o.uci
            /\ call' = [NoCall EXCEPT !.op = "setConfig", !.args = args]
            /\ ret' = o.ret
            /\ UNCHANGED <<inflight, now, rl, issued>>

\* ubus call 2fa setConfig during the login flow
RpcSetConfig == RpcSetConfigFrom(ConfigArgs)

\* ubus call 2fa generateBackupCodes
RpcGenerateBackupCodes ==
    /\ Idle
    /\ \E g \in GenerateInputs :
        \E o \in {rpc_generateBackupCodes(uci, now, [username |-> TRoot, count |-> g[1]], g[2])} :
            /\ uci' = o.uci
            /\ issued' = o.ret.codes
            /\ call' = [NoCall EXCEPT !.op = "generateBackupCodes", !.user = TRoot]
            /\ ret' = o.ret
            /\ UNCHANGED <<inflight, now, rl>>

\* the login flow and the configuration
Next ==
    \/ Tick
    \/ Deliver
    \/ PluginCheck
    \/ PluginVerify
    \/ AuthdCheck
    \/ Uhttpd
    \/ RpcIsEnabled
    \/ RpcVerifyOTP
    \/ RpcSetConfig

Spec == Init /\ [][Next]_vars

\* ubus call 2fa getBackupCodesCount
RpcGetBackupCodesCount ==
    /\ Idle
    /\ \E user \in UserNames \cup {Null} :
        /\ call' = [NoCall EXCEPT !.op = "getBackupCodesCount", !.user = user]
        /\ ret' = rpc_getBackupCodesCount(uci, [username |-> user])
        /\ UNCHANGED <<inflight, now, uci, rl, issued>>

\* ubus call 2fa clearBackupCodes
RpcClearBackupCodes ==
    /\ Idle
    /\ \E user \in {TRoot, TBad} :
        \E o \in {rpc_clearBackupCodes(uci, [username |-> user])} :
            /\ uci' = o.uci
            /\ call' = [NoCall EXCEPT !.op = "clearBackupCodes", !.user = user]
            /\ ret' = o.ret
            /\ UNCHANGED <<inflight, now, rl, issued>>

\* ubus call 2fa getConfig
RpcGetConfig ==
    /\ Idle
    /\ call' = [NoCall EXCEPT !.op = "getConfig"]
    /\ ret' = rpc_getConfig(uci)
    /\ UNCHANGED <<inflight, now, uci, rl, issued>>

\* the handlers of backup codes
NextBackup ==
    \/ Tick
    \/ Deliver
    \/ PluginVerify
    \/ RpcVerifyOTP
    \/ RpcGenerateBackupCodes
    \/ RpcGetBackupCodesCount
    \/ RpcClearBackupCodes
    \/ RpcGetConfig

SpecBackup == InitBackup /\ [][NextBackup]_vars

TypeOK ==
    /\ now \in StartTime..MaxNow
    /\ call.op \in {"none", "check", "verify", "authd_check", "uhttpd", "isEnabled",
                    "verifyOTP", "setConfig", "generateBackupCodes", "getBackupCodesCount",
                    "clearBackupCodes", "getConfig", "is_ip_whitelisted", "test_totp",
                    "generate_backup_codes"}

(***************************************************************************)
(* Properties of the handlers.                                             *)
(***************************************************************************)
\* a step in which one of the handlers ops serves a request
Serves(ops) == Idle /\ call'.op \in ops

VerifyOps == {"verify", "verifyOTP"}

\* the response r carries the flag f
Flag(r, f) == f \in DOMAIN r /\ r[f] = TRUE

\* the response r of the handler op reports success
Succeeded(op, r) == IF op = "verify" THEN r.success ELSE r.result

\* the code the helper prints for a principal at a time
CurrentCode(u, time, user) == trim(generate_otp(u, user, "ok", TRUE, time).out)

\* C1: whenever the check_rate_limit call of verify() or verifyOTP reports the
\* source address as not allowed, the response is a rate-limited failure whatever
\* code was submitted, no backup code is looked up, the helper is not run, and
\* the configuration (HOTP counter, backup-code list) is left as it was.
LockoutBeforeCredentials ==
    [][(/\ Serves(VerifyOps)
        /\ call'.rate_check # NotCalled
        /\ ~check_rate_limit(uci, rl, now, call'.ip).ret.allowed)
       => /\ GetSetting(uci, "rate_limit_enabled") = T1
          /\ ~Succeeded(call'.op, ret')
          /\ Flag(ret', "rate_limited")
          /\ ~call'.backup_tried
          /\ call'.helper_calls = 0
          /\ uci' = uci]_vars

\* the correct code of the moment was submitted from a locked address and refused
LockedWithCorrectOtp ==
    /\ call.op = "verify"
    /\ call.user = TRoot
    /\ call.otp = CurrentCode(uci, now, TRoot)
    /\ ~call.rate_check.allowed
    /\ Flag(ret, "rate_limited")

\* the rate-limit settings the limiter is checked with
RateConfigs == {<<m, w, l>> : m \in 1..2, w \in 1..3, l \in 1..3}

\* the configuration with rate limiting enabled and the settings cfg
WithRate(u, cfg) ==
    [u EXCEPT !.settings.rate_limit_enabled = T1,
              !.settings.rate_limit_max_attempts = IntToStr(cfg[1]),
              !.settings.rate_limit_window = IntToStr(cfg[2]),
              !.settings.rate_limit_lockout = IntToStr(cfg[3])]

\* the state file after failures of ip recorded at the given times
RECURSIVE FailuresAt(_, _, _, _)
FailuresAt(u, state, ip, times) ==
    IF times = <<>> THEN state
    ELSE FailuresAt(u, record_failed_attempt(u, state, Head(times), ip), ip, Tail(times))

\* from the time from on, the address stays refused until the time until, and is
\* allowed with the full budget from then on
LockedUntil(u, state, ip, from, until, budget) ==
    /\ \A t \in from..(until - 1) :
          check_rate_limit(u, state, t, ip).ret =
              [allowed |-> FALSE, remaining |-> 0, locked_until |-> until]
    /\ \A t \in until..(until + 2) :
          check_rate_limit(u, state, t, ip).ret =
              [allowed |-> TRUE, remaining |-> budget, locked_until |-> 0]

\* max_attempts failures within the window lock the address for the lockout time
LocksAfterFailures(u, state, time, ip, cfg) ==
    \E lock \in {check_rate_limit(u,
                                  FailuresAt(u, state, ip,
                                             <<time - cfg[2] + 1>> \o [i \in 1..(cfg[1] - 1) |-> time]),
                                  time, ip)} :
        /\ lock.ret = [allowed |-> FALSE, remaining |-> 0, locked_until |-> time + cfg[3]]
        /\ time + cfg[3] > 0
        /\ LockedUntil(u, lock.state, ip, time, time + cfg[3], cfg[1])

\* C2: for every address and all rate-limit settings, once max_attempts failures
\* lie within the window the next check_rate_limit refuses the address with
\* locked_until = now + lockout; every check before locked_until refuses it; and
\* the first check at or after locked_until allows it with remaining = max_attempts.
RateLimiterLocksAndRecovers ==
    Idle => \A ip \in ClientIPs \ {<<>>}, cfg \in RateConfigs :
                IF EntryOf(rl, ip).locked_until > now
                THEN LockedUntil(WithRate(uci, cfg), rl, ip, now,
                                 EntryOf(rl, ip).locked_until, cfg[1])
                ELSE LocksAfterFailures(WithRate(uci, cfg), rl, now, ip, cfg)

\* an address the run has locked is past its lockout
RecoveredAfterLock ==
    /\ Idle
    /\ EntryOf(rl, IpOut).locked_until > 0
    /\ EntryOf(rl, IpOut).locked_until <= now

\* the spellings of a backup code: as issued, in lower case without the dash,
\* and in lower case with it
Spellings(code) ==
    {code, LowerPlain(code), [i \in 1..Len(code) |-> IF IsUpper(code[i])
                                                    THEN LowerSeq[IndexIn(UpperSeq, code[i])]
                                                    ELSE code[i]]}

\* C3: once a verification has accepted a backup code of a principal, no
\* spelling of that code is accepted for that principal again (the property is
\* stated for the configuration the accepting call leaves; without a
\* regeneration the stored list only shrinks afterwards).
BackupCodeSingleUse ==
    [][(Serves(VerifyOps) /\ Flag(ret', "backup_code_used"))
       => \A form \in Spellings(NormalizeBackupCode(trim(call'.otp))) :
              ~verify_backup_code(uci', call'.user, form).valid]_vars

\* the response r of the handler op reports a verified HOTP code
HotpVerified(c, r) ==
    IF c.op = "uhttpd" THEN Flag(r, "verified")
    ELSE Succeeded(c.op, r) /\ c.helper_calls = 1

\* C4: for a principal of type hotp, a verification attempt that fails leaves
\* the stored counter as it was and one that succeeds with the HOTP code adds
\* exactly 1 to it.
HotpCounterMovement ==
    [][(Serves(VerifyOps \cup {"uhttpd"}) /\ GetUser(uci, TRoot, "type") = THotp)
       => CounterOf(uci', TRoot) =
              CounterOf(uci, TRoot) + (IF HotpVerified(call', ret') THEN 1 ELSE 0)]_vars

\* the request reaches the comparison of a one-time password of the principal root
ReachesOtp(c, r) ==
    /\ c.user = TRoot
    /\ GetSetting(uci, "enabled") = T1
    /\ Truthy(GetUser(uci, TRoot, "key"))
    /\ c.rate_check.allowed
    /\ ~Flag(r, "whitelisted")

\* C5: for a totp principal with step s and a submitted code computed for the
\* time counter c, verification at time now succeeds exactly when
\* floor(now / s) - c is -1, 0 or 1; the helper is asked for the times now,
\* now - s and now + s in this order, and no further once a probe matches.
TotpWindow ==
    [][(/\ Serves(VerifyOps)
        /\ ReachesOtp(call', ret')
        /\ GetUser(uci, TRoot, "type") # THotp
        /\ call'.h = AllOk
        /\ ~call'.is_backup_code
        /\ call'.otp \in CodeTexts)
       => \E c \in 0..MaxCode :
              /\ call'.otp = OtpCode(TKey, c)
              /\ Succeeded(call'.op, ret')
                    <=> (now \div StepOf(uci, TRoot)) - c \in {-1, 0, 1}
              /\ call'.helper_calls =
                    CASE (now \div StepOf(uci, TRoot)) - c = 0 -> 1
                      [] (now \div StepOf(uci, TRoot)) - c = 1 -> 2
                      [] OTHER -> 3]_vars

\* a code of the next time window was accepted by the third probe
AcceptedAtNextWindow ==
    /\ call.op \in VerifyOps
    /\ call.otp \in CodeTexts
    /\ call.h = AllOk
    /\ call.helper_calls = 3
    /\ Succeeded(call.op, ret)
    /\ call.otp = OtpCode(TKey, (now \div StepOf(uci, TRoot)) + 1)

\* 2FA is globally disabled, or the principal has no key
NotConfigured(u, user) ==
    GetSetting(u, "enabled") # T1 \/ ~Truthy(GetUser(u, user, "key"))

\* C6 as stated: without configuration check() never requires the factor,
\* whatever the source address and the rate-limit state.
NoFactorWithoutConfiguration ==
    [][(Serves({"check"}) /\ NotConfigured(uci, call'.user))
       => ~ret'.required]_vars

\* C6, amended: without configuration check() does not require the factor for
\* a source address check_rate_limit allows (or that is allowlisted or unknown);
\* a source address that is locked out gets the blocked response, required=true
\* with no field, before the configuration is looked at.
NoFactorWithoutConfigurationUnlessLocked ==
    [][(Serves({"check"}) /\ NotConfigured(uci, call'.user))
       => IF call'.rate_check.allowed
          THEN ~ret'.required
          ELSE ret'.required /\ Flag(ret', "blocked") /\ ret'.fields = <<>>]_vars

\* check() answered a rate-limited-checked request of a principal with an empty key
PasswordOnlyWithEmptyKey ==
    /\ call.op = "check"
    /\ call.user = TRoot
    /\ call.rate_check # NotCalled
    /\ GetSetting(uci, "enabled") = T1
    /\ GetUser(uci, TRoot, "key") = <<>>
    /\ ~ret.required

\* the source address of the request matches an entry of the enabled allowlist
FromAllowlisted(c) == Truthy(c.ip) /\ is_ip_whitelisted(uci, c.ip)

\* the bypass response of a handler
Bypassed(c, r) == IF c.op = "check" THEN ~r.required ELSE Succeeded(c.op, r)

Challenged(r) ==
    /\ r.required
    /\ "fields" \in DOMAIN r
    /\ \E i \in 1..Len(r.fields) : r.fields[i].name = "luci_otp"

\* C8: for a source address that is neither allowlisted nor locked, check()
\* requires the factor with the luci_otp field exactly when 2FA is globally
\* enabled, the principal name is valid, the key is not empty, and the type is
\* hotp or the clock is calibrated.
FactorRequiredDecision ==
    [][(/\ Serves({"check", "authd_check"})
        /\ ~FromAllowlisted(call')
        /\ call'.rate_check.allowed)
       => Challenged(ret')
            <=> /\ GetSetting(uci, "enabled") = T1
                /\ sanitize_username(call'.user) # Null
                /\ Truthy(GetUser(uci, call'.user, "key"))
                /\ \/ GetUser(uci, call'.user, "type") = THotp
                   \/ check_time_calibration(uci, now).calibrated]_vars

\* the codes the helper runs of a request compute for the principal
HelperCodes(u, time, user, h) ==
    IF GetUser(u, user, "type") = THotp
    THEN {CurrentCode(u, time, user) : k \in {i \in {1} : h[i] = "ok"}}
    ELSE {CurrentCode(u, time + Offsets[k] * StepOf(u, user), user) :
              k \in {i \in 1..3 : h[i] = "ok"}}

\* the submitted text is a valid credential of the principal
ValidCredential(u, time, c) ==
    /\ Truthy(c.otp)
    /\ \/ \E i \in 1..Len(StoredCodes(u, c.user)) :
              /\ StoredCodes(u, c.user)[i] # <<>>
              /\ StoredCodes(u, c.user)[i] = HashOf(NormalizeBackupCode(trim(c.otp)))
       \/ /\ MatchSixDigits(trim(c.otp))
          /\ trim(c.otp) \in HelperCodes(u, time, c.user, c.h)

\* C9: for a principal with 2FA enabled and a key, from a source address that
\* is not allowlisted, verify() and verifyOTP succeed only for a text that
\* hashes to a stored backup code or that, trimmed, is six digits equal to a
\* code the helper computes for the current counter or time window.
SuccessNeedsCredential ==
    [][(/\ Serves(VerifyOps)
        /\ ~NotConfigured(uci, call'.user)
        /\ ~FromAllowlisted(call')
        /\ Succeeded(call'.op, ret'))
       => ValidCredential(uci, now, call')]_vars

\* C10: with rate limiting enabled, every failure verify() or verifyOTP reports
\* to a source address that is not empty, not locked and not allowlisted adds
\* exactly the current time to the failure list of that address.
EveryFailureCounted ==
    [][(/\ Serves(VerifyOps)
        /\ GetSetting(uci, "rate_limit_enabled") = T1
        /\ Truthy(call'.ip)
        /\ ~FromAllowlisted(call')
        /\ check_rate_limit(uci, rl, now, call'.ip).ret.allowed
        /\ ~Succeeded(call'.op, ret'))
       => EntryOf(rl', call'.ip).attempts =
              Append(RecentAttempts(EntryOf(rl, call'.ip).attempts, now,
                                    int(OrDefault(GetSetting(uci, "rate_limit_window"), T60))),
                     now)]_vars

\* the outcome of the handler op for the submission s in a given state
VerifyOutcome(op, u, state, time, s) ==
    IF op = "verify"
    THEN plugin_verify(u, state, time, Http(s.ip, s.otp), s.user, s.h)
    ELSE rpc_verifyOTP(u, state, time,
                       [otp |-> s.otp, username |-> s.user, client_ip |-> s.ip,
                        is_backup_code |-> s.is_backup_code], s.h)

\* the submissions the handler op can receive: verify() has no is_backup_code argument
SubmissionsOf(op, iss) ==
    IF op = "verify" THEN {x \in Submissions(iss) : ~x.is_backup_code} ELSE Submissions(iss)

\* the source address is locked out: check_rate_limit refuses it
Locked(u, state, time, ip) == Truthy(ip) /\ ~check_rate_limit(u, state, time, ip).ret.allowed

\* the responses the handler op gives to the failed calls from sources that are not locked
FailedResponses(op, u, state, time, iss) ==
    {o.ret : o \in {x \in {VerifyOutcome(op, u, state, time, s) :
                              s \in {y \in SubmissionsOf(op, iss) : ~Locked(u, state, time, y.ip)}} :
                       ~Succeeded(op, x.ret)}}

\* C11: for a source that is not locked, any two failed verify() calls return
\* the same response and any two failed verifyOTP calls return the same
\* response, whatever the cause of the failure.
UniformFailureResponse ==
    (Idle /\ CounterInBound)
        => \A op \in VerifyOps : Cardinality(FailedResponses(op, uci, rl, now, issued)) <= 1

\* the call succeeded by a one-time password or by a backup code
ByCredential(c, r) ==
    /\ Succeeded(c.op, r)
    /\ ~Flag(r, "whitelisted")
    /\ Flag(r, "backup_code_used") \/ c.helper_calls >= 1

\* the state change of a successful call is committed: the redeemed backup code
\* is gone from the list, or the HOTP counter has moved by one
Committed(c, r, u, v) ==
    IF Flag(r, "backup_code_used")
    THEN /\ Len(StoredCodes(v, c.user)) = Len(StoredCodes(u, c.user)) - 1
         /\ CounterOf(v, c.user) = CounterOf(u, c.user)
    ELSE IF GetUser(u, c.user, "type") = THotp
    THEN v = SetUser(u, c.user, "counter", IntToStr(CounterOf(u, c.user) + 1))
    ELSE v = u

\* rate_limit_max_attempts as check_rate_limit reads it
MaxAttempts(u) == int(OrDefault(GetSetting(u, "rate_limit_max_attempts"), T5))

\* C12 as stated: after a success by OTP or backup code from a non-empty source
\* address the rate-limit store has no entry for the address, the state change
\* is committed, and the next check_rate_limit allows the address with
\* remaining = max_attempts.
SuccessResetsBudget ==
    [][(Serves(VerifyOps) /\ Truthy(call'.ip) /\ ByCredential(call', ret'))
       => /\ call'.ip \notin DOMAIN rl'
          /\ Committed(call', ret', uci, uci')
          /\ check_rate_limit(uci', rl', now, call'.ip).ret =
                [allowed |-> TRUE, remaining |-> MaxAttempts(uci'), locked_until |-> 0]]_vars

\* C12, amended: as stated when rate limiting is enabled; when it is not, the
\* entry is removed all the same and the next check_rate_limit allows the
\* address with remaining = -1.
SuccessResetsBudgetWhenEnabled ==
    [][(Serves(VerifyOps) /\ Truthy(call'.ip) /\ ByCredential(call', ret'))
       => /\ call'.ip \notin DOMAIN rl'
          /\ Committed(call', ret', uci, uci')
          /\ check_rate_limit(uci', rl', now, call'.ip).ret =
                [allowed |-> TRUE,
                 remaining |-> IF GetSetting(uci', "rate_limit_enabled") = T1
                               THEN MaxAttempts(uci') ELSE -1,
                 locked_until |-> 0]]_vars

\* a call succeeded from an address that had a failure on its list
SucceededAfterFailure ==
    /\ call.op \in VerifyOps
    /\ Truthy(call.ip)
    /\ ByCredential(call, ret)
    /\ GetSetting(uci, "rate_limit_enabled") = T1
    /\ call.rate_check.remaining >= 1
    /\ call.rate_check.remaining < MaxAttempts(uci)
    /\ call.ip \notin DOMAIN rl

\* the configurations that differ from u only in the factor configuration of
\* root: globally disabled, no key, the other type
FactorVariants(u) ==
    {u, [u EXCEPT !.settings.enabled = T0], SetUser(u, TRoot, "key", <<>>),
     SetUser(u, TRoot, "type", THotp), SetUser(u, TRoot, "type", TTotp)}

\* the response of check(), verify() or verifyOTP to a request of a principal
\* from an address, with the code of the moment submitted
ResponseOf(op, u, state, time, ip, user) ==
    IF op = "check" THEN plugin_check(u, state, time, Http(ip, Null), user).ret
    ELSE VerifyOutcome(op, u, state, time,
                       Submission(ip, user, CurrentCode(u, time, user), FALSE, AllOk)).ret

\* the responses a locked address can get, over the principals root (with
\* a section) and bob (without one) and the factor configurations
BlockedResponses(op, u, state, time, ip) ==
    {ResponseOf(op, v, state, time, ip, user) : v \in FactorVariants(u), user \in {TRoot, TBob}}

\* C13: for a source address that is locked (and not allowlisted), check(),
\* verify() and verifyOTP each give one and the same response for every
\* principal and every factor configuration.
BlockedResponseLeaksNothing ==
    Idle => \A ip \in ClientIPs :
                (Locked(uci, rl, now, ip) /\ ~is_ip_whitelisted(uci, ip))
                    => \A op \in VerifyOps \cup {"check"} :
                           Cardinality(BlockedResponses(op, uci, rl, now, ip)) = 1

\* the answer of check_rate_limit when rate limiting is off
Unlimited == [allowed |-> TRUE, remaining |-> -1, locked_until |-> 0]

\* C14: whenever rate_limit_enabled is not '1', check_rate_limit answers
\* allowed=true, remaining=-1, locked_until=0 for every address, also for one
\* whose stored lockout is in the future, and neither it nor
\* record_failed_attempt changes the rate-limit store.
RateLimitingOff ==
    (GetSetting(uci, "rate_limit_enabled") # T1)
        => \A ip \in ClientIPs \ {<<>>} :
               /\ check_rate_limit(uci, rl, now, ip) = [ret |-> Unlimited, state |-> rl]
               /\ record_failed_attempt(uci, rl, now, ip) = rl

\* with rate limiting off, verify() failed from an address whose stored lockout
\* is in the future: check_rate_limit let it pass and the failure left no trace
FailedWhileLimiterOff ==
    /\ call.op = "verify"
    /\ GetSetting(uci, "rate_limit_enabled") # T1
    /\ EntryOf(rl, call.ip).locked_until > now
    /\ EntryOf(rl, call.ip).attempts = <<>>
    /\ call.rate_check = Unlimited
    /\ ~ret.success
(***************************************************************************)
(* The addresses and allowlist entries is_ip_whitelisted is applied to.     *)
(***************************************************************************)
LookupIPs ==
    {<<"1", "9", "2", ".", "1", "6", "8", ".", "1", ".", "1">>,  \* 192.168.1.1
     <<"1", "9", "2", ".", "1", "6", "8", ".", "1", ".", "2", "5", "4">>,  \* 192.168.1.254
     <<"1", "9", "2", ".", "1", "6", "8", ".", "2", ".", "1">>,  \* 192.168.2.1
     <<"1", "9", "2", ".", "1", "6", "8", ".", "1", ".", "1", "2", "7">>,  \* 192.168.1.127
     <<"1", "9", "2", ".", "1", "6", "8", ".", "1", ".", "1", "2", "8">>,  \* 192.168.1.128
     <<"1", "9", "2", ".", "1", "6", "8", ".", "1", "2", "9", ".", "1">>,  \* 192.168.129.1
     <<"1", "0", ".", "0", ".", "0", ".", "5">>,  \* 10.0.0.5
     <<"1", "0", ".", "0", ".", "0", ".", "5", "0">>,  \* 10.0.0.50
     <<"1", "0", ".", "2", "0", "0", ".", "3", ".", "4">>,  \* 10.200.3.4
     <<"1", "1", ".", "0", ".", "0", ".", "5">>,  \* 11.0.0.5
     <<"1", "7", "2", ".", "3", "1", ".", "2", "5", "5", ".", "2", "5", "5">>,  \* 172.31.255.255
     <<"1", "7", "2", ".", "3", "2", ".", "0", ".", "0">>,  \* 172.32.0.0
     <<"f", "e", "8", "0", ":", ":", "1">>,  \* fe80::1
     <<"f", "e", "8", "0", ":", ":", "2">>}  \* fe80::2

LookupEntries ==
    {<<"1", "0", ".", "0", ".", "0", ".", "5">>,  \* 10.0.0.5
     <<"1", "9", "2", ".", "1", "6", "8", ".", "1", ".", "0", "/", "2", "4">>,  \* 192.168.1.0/24
     <<"0", ".", "0", ".", "0", ".", "0", "/", "0">>,  \* 0.0.0.0/0
     <<"1", "0", ".", "0", ".", "0", ".", "5", "/", "3", "2">>,  \* 10.0.0.5/32
     <<"1", "0", ".", "0", ".", "0", ".", "0", "/", "8">>,  \* 10.0.0.0/8
     <<"1", "7", "2", ".", "1", "6", ".", "0", ".", "0", "/", "1", "2">>,  \* 172.16.0.0/12
     <<"1", "9", "2", ".", "1", "6", "8", ".", "1", ".", "1", "2", "8", "/", "2", "5">>,  \* 192.168.1.128/25
     <<"1", "9", "2", ".", "1", "6", "8", ".", "1", "2", "8", ".", "0", "/", "1", "7">>,  \* 192.168.128.0/17
     <<"f", "e", "8", "0", ":", ":", "1">>,  \* fe80::1
     <<"f", "e", "8", "0", ":", ":", "1", "/", "6", "4">>,  \* fe80::1/64
     <<"f", "e", "8", "0", ":", ":", "/", "6", "4">>}  \* fe80::/64

\* the addresses of the allowlist example
Ip192x168x1x1 == <<"1", "9", "2", ".", "1", "6", "8", ".", "1", ".", "1">>
Ip192x168x1x254 == <<"1", "9", "2", ".", "1", "6", "8", ".", "1", ".", "2", "5", "4">>
Ip192x168x2x1 == <<"1", "9", "2", ".", "1", "6", "8", ".", "2", ".", "1">>

\* the allowlists: one entry, the two entries of the example, an empty entry
\* before an entry, and no entry
LookupLists ==
    {<<e>> : e \in LookupEntries} \cup {Allowlist, << <<>>, Allowlist[1] >>, <<>>}

(***************************************************************************)
(* The functions of the backend applied to drawn inputs: the configuration *)
(* is drawn at the start, a step applies one function to one input and     *)
(* keeps the input in call and the result in ret.                          *)
(***************************************************************************)
\* the secret of the test vectors of RFC 6238, the ASCII text 12345678901234567890
RfcSecret == <<"G", "E", "Z", "D", "G", "N", "B", "V", "G", "Y", "3", "T", "Q", "O", "J", "Q", "G", "E", "Z", "D", "G", "N", "B", "V", "G", "Y", "3", "T", "Q", "O", "J", "Q">>

\* the key and the time test_totp is written for
SourceKey == <<"X", "6", "X", "B", "6", "X", "V", "L", "Z", "L", "W", "W", "H", "X", "5", "G">>
SourceTime == 1769840420

RfcTimes == {59, 1111111109, 1111111111, 1234567890, 2000000000}

\* the calls of the engine: key, time, step
EngineInputs == {<<RfcSecret, t, 30>> : t \in RfcTimes} \cup {<<SourceKey, SourceTime, 30>>}

\* the allowlist is drawn at the start, or the key and the time of a call of the engine
InitFunctions ==
    /\ \/ /\ now = StartTime
          /\ \E f \in {T0, T1}, l \in LookupLists :
                uci = Config([BaseSettings EXCEPT !.ip_whitelist_enabled = f, !.ip_whitelist = l],
                             BaseUser)
       \/ \E x \in EngineInputs :
             /\ now = x[2]
             /\ uci = Config(BaseSettings, [BaseUser EXCEPT !.key = x[1], !.step = IntToStr(x[3])])
    /\ rl = <<>>
    /\ issued = <<>>
    /\ call = NoCall
    /\ ret = NoRet
    /\ inflight = <<>>

\* is_ip_whitelisted(ip)
AllowlistLookup ==
    /\ Idle
    /\ \E ip \in LookupIPs :
        /\ call' = [NoCall EXCEPT !.op = "is_ip_whitelisted", !.ip = ip]
        /\ ret' = [whitelisted |-> is_ip_whitelisted(uci, ip)]
        /\ UNCHANGED <<inflight, now, uci, rl, issued>>

\* a run of the OTP engine for the key and the step of root at the time of the
\* clock, when these are one of the calls of the model
OtpEngine ==
    /\ Idle
    /\ <<GetUser(uci, TRoot, "key"), now, StepOf(uci, TRoot)>> \in EngineInputs
    /\ call' = [NoCall EXCEPT !.op = "test_totp",
                              !.args = [key |-> GetUser(uci, TRoot, "key"), timestamp |-> now,
                                        step |-> StepOf(uci, TRoot)]]
    /\ ret' = [otp |-> test_totp(GetUser(uci, TRoot, "key"), now, StepOf(uci, TRoot))]
    /\ UNCHANGED <<inflight, now, uci, rl, issued>>

\* a read of /dev/urandom that ends after 20 bytes, and one that delivers nothing
ShortRead == SubSeq(RandomDistinct, 1, 20)
EmptyRead == <<>>

\* the counts generate_backup_codes is called with; 0 is a call without a count
BatchCounts == {0, -1, 1, 3, 10, 11}

\* what the read of /dev/urandom delivers; Null when the device cannot be opened
BatchReads == {RandomDistinct, ShortRead, EmptyRead, Null}

\* generate_backup_codes(count): the entries { code, hash }
BackupEntries(count, data, time) ==
    [i \in 1..Len(generate_backup_codes(count, data, time)) |->
        [code |-> generate_backup_codes(count, data, time)[i],
         hash |-> backup_code_hash(generate_backup_codes(count, data, time)[i])]]

\* a call of generate_backup_codes
GenerateCodes ==
    /\ Idle
    /\ \E count \in BatchCounts, data \in BatchReads :
        /\ call' = [NoCall EXCEPT !.op = "generate_backup_codes",
                                  !.args = [count |-> count, data |-> data]]
        /\ ret' = [codes |-> BackupEntries(count, data, now)]
        /\ UNCHANGED <<inflight, now, uci, rl, issued>>

NextFunctions ==
    \/ Deliver
    \/ AllowlistLookup
    \/ OtpEngine
    \/ GenerateCodes

SpecFunctions == InitFunctions /\ [][NextFunctions]_vars

\* bit k (1 is the top bit) of a dotted IPv4 address
AddressBit(s, k) == (int(split(s, ".")[((k - 1) \div 8) + 1]) \div Pow2(7 - ((k - 1) % 8))) % 2

\* the entry e of an allowlist matches the address ip
EntryMatches(e, ip) ==
    IF index(e, "/") < 0 THEN ip = e
    ELSE \E net \in {split(e, "/")[1]}, p \in {int(split(e, "/")[2])} :
            IF MatchIPv4(ip)
            THEN MatchIPv4(net) /\ \A k \in 1..p : AddressBit(ip, k) = AddressBit(net, k)
            ELSE ip = net

\* the reference of is_ip_whitelisted
AllowlistReference(u, ip) ==
    /\ GetSetting(u, "ip_whitelist_enabled") = T1
    /\ \E i \in 1..Len(GetSetting(u, "ip_whitelist")) :
          /\ GetSetting(u, "ip_whitelist")[i] # <<>>
          /\ EntryMatches(GetSetting(u, "ip_whitelist")[i], ip)

\* the address starts with 192.168.1. : it lies in 192.168.1.0/24
InExampleNet(ip) == Len(ip) > 10 /\ SubSeq(ip, 1, 10) = SubSeq(Ip192x168x1x1, 1, 10)

\* C15: is_ip_whitelisted(ip) is true exactly when the allowlist is enabled and
\* some non-empty entry is the address itself, or is net/p with the top p bits
\* of the IPv4 address and of net equal, or is net/p with net equal to an
\* address that is not dotted IPv4.  With the list 10.0.0.5, 192.168.1.0/24 the
\* addresses 192.168.1.1 and 192.168.1.254 match, 192.168.2.1 does not, and
\* outside that network only 10.0.0.5 matches.
AllowlistMatchesReference ==
    (call.op = "is_ip_whitelisted")
        => /\ ret.whitelisted <=> AllowlistReference(uci, call.ip)
           /\ (GetSetting(uci, "ip_whitelist_enabled") = T1 /\ GetSetting(uci, "ip_whitelist") = Allowlist)
                 => /\ ret.whitelisted <=> (call.ip = Allowlist[1] \/ InExampleNet(call.ip))
                    /\ call.ip \in {Ip192x168x1x1, Ip192x168x1x254} => ret.whitelisted
                    /\ call.ip = Ip192x168x2x1 => ~ret.whitelisted

\* 192.168.1.254 was looked up in the list with the one entry 192.168.1.0/24 and matched
MatchedByPrefix ==
    /\ call.op = "is_ip_whitelisted"
    /\ call.ip = Ip192x168x1x254
    /\ GetSetting(uci, "ip_whitelist") = <<Allowlist[2]>>
    /\ ret.whitelisted

(***************************************************************************)
(* setConfig with arbitrary arguments.                                     *)
(***************************************************************************)
T100 == <<"1", "0", "0">>
T3600 == <<"3", "6", "0", "0">>
T86400 == <<"8", "6", "4", "0", "0">>
TBase32 == <<"M", "Z", "X", "W", "6", "Y", "T", "B">>

\* calls whose scalar arguments all pass their validation
ValidArgs ==
    {[NoArgs EXCEPT !.enabled = T0, !.type = THotp, !.key = TBase32, !.step = T30, !.counter = T5,
                    !.rate_limit_max_attempts = T100, !.rate_limit_window = T3600,
                    !.rate_limit_lockout = T86400],
     [NoArgs EXCEPT !.enabled = T1, !.type = TTotp, !.key = TKey, !.step = T1, !.counter = T0,
                    !.ip_whitelist_enabled = T1, !.ip_whitelist = Allowlist \o << <<>>, TRoot >>,
                    !.rate_limit_enabled = T0, !.rate_limit_max_attempts = T1,
                    !.rate_limit_window = T1, !.rate_limit_lockout = T1]}

FlagOptions == {"enabled", "ip_whitelist_enabled", "rate_limit_enabled"}
NumericOptions == {"step", "counter", "rate_limit_max_attempts", "rate_limit_window",
                   "rate_limit_lockout"}
RootOptions == {"type", "key", "step", "counter"}
ScalarOptions == FlagOptions \cup NumericOptions \cup {"type", "key"}

\* values of a scalar argument at and beyond the limits of the option f
EdgeValues(f) ==
    IF f \in FlagOptions THEN {<<>>, T2, TRoot, <<"0", "1">>, T1}
    ELSE IF f = "type" THEN {<<>>, TKey, <<"T", "O", "T", "P">>, THotp}
    ELSE IF f = "key" THEN {<<>>, TRoot, <<"A", "B", "C", "1">>, <<"M", "Z", "X", "W", "6", "=", "=", "=">>, <<"A", "B", " ", "C", "D">>, <<"A", "B", "C", "D", "E", "F", "G", "H">>}
    ELSE {<<>>, T0, <<"-", "1">>, TRoot, <<"5", "a", "b", "c">>, <<" ", "7">>, <<"+", "3">>, <<"1", ".", "5">>, <<"1", "0", "1">>, <<"3", "6", "0", "1">>,
          <<"8", "6", "4", "0", "1">>, <<"1", "0", "0", "0", "0", "0">>}

\* the arguments of the setConfig calls: a valid call with one argument replaced
\* by any of the values, and a call in which every scalar argument fails
WideArgs ==
    {[v EXCEPT ![f] = x] : v \in ValidArgs, f \in ScalarOptions,
                           x \in UNION {EdgeValues(g) : g \in ScalarOptions}}
      \cup {[f \in DOMAIN NoArgs |-> IF f \in ScalarOptions THEN TRoot ELSE Null]}

ConfigStarts ==
    {Start(Config(BaseSettings, BaseUser), <<>>, <<>>),
     Start(Config(BaseSettings, [BaseUser EXCEPT !.key = <<>>]), <<>>, <<>>)}

InitConfig == InitFrom(ConfigStarts)

\* ubus call 2fa setConfig by an administrator
RpcSetConfigAny == RpcSetConfigFrom(WideArgs)

NextConfig ==
    \/ Deliver
    \/ RpcSetConfigAny

SpecConfig == InitConfig /\ [][NextConfig]_vars

\* the stored value of the option a scalar argument of setConfig is written to
Stored(u, f) == IF f \in RootOptions THEN GetUser(u, TRoot, f) ELSE GetSetting(u, f)

\* a text of decimal digits without a leading zero, and its value
Decimal(v) ==
    /\ v # Null /\ v # <<>>
    /\ \A i \in 1..Len(v) : v[i] \in Range(DigitSeq)
    /\ Len(v) > 1 => v[1] # "0"

DecimalIn(v, lo, hi) == Decimal(v) /\ DigitsToInt(v) >= lo /\ DigitsToInt(v) <= hi

Base32Text(v) == \A i \in 1..Len(v) : v[i] \in Range(UpperSeq) \cup {"2", "3", "4", "5", "6", "7"}

\* the lower and the upper limit of a numeric option
LowerLimit(f) == IF f = "counter" THEN 0 ELSE 1
UpperLimit(f) ==
    IF f = "rate_limit_max_attempts" THEN 100
    ELSE IF f = "rate_limit_window" THEN 3600
    ELSE IF f = "rate_limit_lockout" THEN 86400
    ELSE M31

ValidConfiguration(u) ==
    /\ \A f \in FlagOptions : Stored(u, f) \in {T0, T1}
    /\ Stored(u, "type") \in {TTotp, THotp}
    /\ Stored(u, "key") # Null /\ Base32Text(Stored(u, "key"))
    /\ \A f \in NumericOptions : DecimalIn(Stored(u, f), LowerLimit(f), UpperLimit(f))

\* the argument x of the option f passes the validation of setConfig
Passes(f, x) ==
    IF f \in FlagOptions THEN x \in {T0, T1}
    ELSE IF f = "type" THEN x \in {TTotp, THotp}
    ELSE IF f = "key" THEN x # <<>> /\ Base32Text(x)
    ELSE IsNumber(x) /\ int(x) >= LowerLimit(f) /\ int(x) <= UpperLimit(f)

\* what setConfig writes for a passing argument
Written(f, x) == IF f \in NumericOptions THEN IntToStr(int(x)) ELSE x

\* a setConfig step writes the passing arguments and leaves the other options
SetConfigFrame ==
    (Idle /\ call'.op = "setConfig")
        => \A f \in ScalarOptions :
              IF Truthy(call'.args[f]) /\ Passes(f, call'.args[f])
              THEN Stored(uci', f) = Written(f, call'.args[f])
              ELSE Stored(uci', f) = Stored(uci, f)

\* C16: starting from a valid configuration, after any sequence of setConfig
\* calls the three flags are '0' or '1', the type is totp or hotp, the key is
\* empty or made of A-Z and 2-7, step >= 1, counter >= 0, max_attempts is in
\* 1..100, the window in 1..3600 and the lockout in 1..86400; a call writes
\* each scalar argument that passes its validation and leaves the option of
\* each one that fails as it was.
SetConfigKeepsValid ==
    /\ []ValidConfiguration(uci)
    /\ [][SetConfigFrame]_vars

\* a call with a window above the limit and a valid flag: the flag was written,
\* the window was not
InvalidArgumentSkipped ==
    /\ call.op = "setConfig"
    /\ call.args.rate_limit_window = <<"3", "6", "0", "1">>
    /\ call.args.enabled = T0
    /\ call.args.step = T30
    /\ Stored(uci, "enabled") = T0
    /\ Stored(uci, "step") = T30
    /\ Stored(uci, "rate_limit_window") = T2

(***************************************************************************)
(* Two principals.                                                         *)
(***************************************************************************)
\* a second batch of backup codes and its hashes
OtherBatch == BackupCodesOf(2, RandomSame, StartTime)
OtherHashes == [i \in 1..Len(OtherBatch) |-> HashOf(OtherBatch[i])]

HotpSection == [BaseUser EXCEPT !.type = THotp, !.counter = T1, !.backup_codes = StoredHashes]
KeylessSection == [BaseUser EXCEPT !.key = <<>>]
QuickSection == [BaseUser EXCEPT !.key = TBase32, !.step = T1, !.backup_codes = OtherHashes]
TotpSection == [BaseUser EXCEPT !.backup_codes = StoredHashes]

\* the sections a principal may have; the empty sequence is a principal without one
Sections == {<<>>, <<HotpSection>>, <<KeylessSection>>, <<QuickSection>>, <<TotpSection>>}

Principals == {TRoot, TBob}

\* the configuration with the section of the principal v replaced
WithSection(u, v, sec) ==
    [u EXCEPT !.users = [n \in (DOMAIN u.users \ {v}) \cup (IF sec = <<>> THEN {} ELSE {v}) |->
                            IF n = v THEN sec[1] ELSE u.users[n]]]

\* the section of a principal, as a sequence
SectionOf(u, v) == IF v \in DOMAIN u.users THEN <<u.users[v]>> ELSE <<>>

UserStarts ==
    {Start(WithSection(Config([BaseSettings EXCEPT !.ip_whitelist_enabled = T1,
                                                   !.rate_limit_enabled = T0], TotpSection),
                       TBob, <<KeylessSection>>), <<>>, StoredBatch),
     Start(WithSection(Config(QuickSettings, HotpSection), TBob, <<QuickSection>>), <<>>, OtherBatch),
     Start(WithSection(Config([BaseSettings EXCEPT !.rate_limit_enabled = T0], KeylessSection),
                       TBob, <<HotpSection>>), <<>>, StoredBatch)}

InitUsers == InitFrom(UserStarts)

\* the login flow with two principals
NextUsers ==
    \/ Tick
    \/ Deliver
    \/ PluginCheck
    \/ PluginVerify
    \/ RpcIsEnabled
    \/ RpcVerifyOTP

SpecUsers == InitUsers /\ [][NextUsers]_vars

\* the codes a client may submit for a principal: the codes of the moment of every
\* section, backup codes of both batches, and texts that are no code
CodesOfSections(u, time, user) ==
    {CurrentCode(WithSection(u, user, sec), time, user) : sec \in Sections \ {<<>>}}

\* the requests of a principal to the handler op; isEnabled and check() take no code
UserRequests(op, u, time, user) ==
    {Submission(ip, user, otp, FALSE, AllOk) :
        ip \in {IpOut, IpIn},
        otp \in IF op \in VerifyOps
                THEN CodesOfSections(u, time, user)
                        \cup {StoredBatch[1], OtherBatch[1], Null, TBlank, TUnknownBackup}
                ELSE {Null}}

FactorOps == {"isEnabled", "check", "verify", "verifyOTP"}

\* what the handler op does with a request: response, configuration, rate-limit file
Handled(op, u, state, time, s) ==
    IF op = "isEnabled"
    THEN [ret |-> rpc_isEnabled(u, time, [username |-> s.user, client_ip |-> s.ip]),
          uci |-> u, state |-> state]
    ELSE IF op = "check"
    THEN [x \in {"ret", "uci", "state"} |-> plugin_check(u, state, time, Http(s.ip, Null), s.user)[x]]
    ELSE [x \in {"ret", "uci", "state"} |-> VerifyOutcome(op, u, state, time, s)[x]]

\* two runs of a handler for the principal user agree: same response, same
\* rate-limit file, same section of the principal afterwards
Agree(a, b, user) ==
    /\ a.ret = b.ret
    /\ a.state = b.state
    /\ SectionOf(a.uci, user) = SectionOf(b.uci, user)

\* the other principal
OtherOf(user) == IF user = TRoot THEN TBob ELSE TRoot

\* C17: the response of isEnabled, check(), verify() and verifyOTP for a
\* principal u, and what the call leaves in u's section and in the rate-limit
\* file, are the same in two configurations that differ only in the section of
\* the other principal v, and the call leaves v's section as it was: with the
\* global settings, the address and the clock fixed, only u's key, type, step,
\* counter and backup codes decide.
PerUserIndependence ==
    (Idle /\ CounterInBound)
        => \A user \in Principals, op \in FactorOps :
              \A s \in UserRequests(op, uci, now, user) :
                  \E base \in {Handled(op, uci, rl, now, s)} :
                      \A sec \in Sections :
                          \E other \in {Handled(op, WithSection(uci, OtherOf(user), sec), rl, now, s)} :
                              /\ Agree(base, other, user)
                              /\ SectionOf(other.uci, OtherOf(user)) = sec

\* root with a key is asked for the factor while bob with an empty key is not
RootEnabledBobNot ==
    /\ call.op = "isEnabled"
    /\ call.user = TBob
    /\ ret = [enabled |-> FALSE]
    /\ GetUser(uci, TBob, "key") = <<>>
    /\ rpc_isEnabled(uci, now, [username |-> TRoot, client_ip |-> call.ip]).enabled

\* the codes RFC 6238 publishes for SHA-1, reduced to six digits
RfcCodes ==
    (59 :> <<"2", "8", "7", "0", "8", "2">>) @@ (1111111109 :> <<"0", "8", "1", "8", "0", "4">>) @@ (1111111111 :> <<"0", "5", "0", "4", "7", "1">>) @@ (1234567890 :> <<"0", "0", "5", "9", "2", "4">>)
        @@ (2000000000 :> <<"2", "7", "9", "0", "3", "7">>)

\* C18: with the secret GEZDGNBVGY3TQOJQGEZDGNBVGY3TQOJQ and step 30 the engine
\* (decode_base32, calculate_hmac_sha1 over the 8-byte big-endian counter
\* floor(t / 30), dynamic truncation) prints 287082 at t = 59, 081804 at
\* t = 1111111109, 050471 at t = 1111111111, 005924 at t = 1234567890 and
\* 279037 at t = 2000000000.
EngineConformsToRfc ==
    (call.op = "test_totp" /\ call.args.key = RfcSecret /\ call.args.step = 30)
        => ret.otp = RfcCodes[call.args.timestamp]

\* the engine has printed the code of the last vector
LastVectorComputed ==
    /\ call.op = "test_totp"
    /\ call.args.key = RfcSecret
    /\ call.args.timestamp = 2000000000
    /\ ret.otp = <<"2", "7", "9", "0", "3", "7">>

\* two groups of four symbols of the alphabet joined by a dash
WellFormedCode(c) ==
    /\ Len(c) = 9
    /\ c[5] = "-"
    /\ \A i \in (1..9) \ {5} : c[i] \in Range(BackupChars)

\* the number of codes a count asks for
BatchSize(count) == IF count < 1 THEN 5 ELSE IF count > 10 THEN 10 ELSE count

\* the batch of a call is full and well-formed
FullBatch(count, codes) ==
    /\ Len(codes) = BatchSize(count)
    /\ \A i \in 1..Len(codes) :
          /\ WellFormedCode(codes[i].code)
          /\ codes[i].hash = backup_code_hash(codes[i].code)

\* C19: generate_backup_codes(count) returns exactly n entries, n = 5 when the
\* count is missing or below 1, 10 when it is above 10, else the count; every
\* code is two groups of four symbols of ABCDEFGHJKLMNPQRSTUVWXYZ23456789
\* joined by a dash and its hash is backup_code_hash(code); whether the
\* random source delivers all bytes, cannot be opened, or delivers fewer bytes.
FullWellFormedBatch ==
    (call.op = "generate_backup_codes") => FullBatch(call.args.count, ret.codes)

\* the same for the calls in which the random source delivers all bytes or
\* cannot be opened
FullWellFormedBatchOnFullRead ==
    (call.op = "generate_backup_codes" /\ call.args.data \in {RandomDistinct, Null})
        => FullBatch(call.args.count, ret.codes)

\* sixteen hexadecimal digits
IsHash16(h) == Len(h) = 16 /\ \A i \in 1..16 : h[i] \in Range(HexSeq)

\* every plaintext code a generateBackupCodes call of the model can return, and
\* the batch stored before the run
AllCodes == UNION {Range(l) : l \in IssuedLists} \cup Range(StoredBatch)

\* the fields of a response that could carry codes or hashes
CodeFields == {"codes", "code", "hash", "hashes", "backup_codes"}

\* the text fields of the response of getConfig
ConfigTexts(r) == {r[f] : f \in DOMAIN r \ {"ip_whitelist"}}

\* C20: after any sequence of calls the backup_codes option of every principal
\* holds only hashes of 16 hexadecimal digits and no plaintext code; the only
\* response with plaintext codes is that of the generateBackupCodes call that
\* created them, whose hashes are what is stored; getBackupCodesCount returns
\* a number only; the responses of verification and of the other handlers
\* carry no code and no hash.
PlaintextNeverStoredOrDisclosed ==
    /\ \A user \in DOMAIN uci.users :
          \A i \in 1..Len(StoredCodes(uci, user)) :
              /\ IsHash16(StoredCodes(uci, user)[i])
              /\ StoredCodes(uci, user)[i] \notin AllCodes
    /\ (call.op = "generateBackupCodes" /\ Flag(ret, "result"))
          => /\ ret.codes = issued
             /\ StoredCodes(uci, call.user) = [i \in 1..Len(ret.codes) |-> backup_code_hash(ret.codes[i])]
    /\ (call.op = "getBackupCodesCount")
          => /\ DOMAIN ret = {"count"}
             /\ ret.count \in 0..10
             /\ call.user = TRoot => ret.count = ValidCount(StoredCodes(uci, TRoot))
    /\ (call.op = "getConfig")
          => /\ DOMAIN ret \cap CodeFields = {}
             /\ ConfigTexts(ret) \cap (AllCodes \cup Range(StoredCodes(uci, TRoot))) = {}
    /\ (call.op \notin {"none", "generateBackupCodes"})
          => DOMAIN ret \cap CodeFields = {}

\* getBackupCodesCount has counted the codes of root that are left after one was redeemed
CountedAfterRedeem ==
    /\ call.op = "getBackupCodesCount"
    /\ call.user = TRoot
    /\ issued # <<>>
    /\ ret.count > 0
    /\ ret.count < Len(issued)

(***************************************************************************)
(* Handlers beside each other.  rpcd and uhttpd serve requests in several  *)
(* processes; a handler is then a sequence of steps on the shared stores.  *)
(* A uci cursor reads the committed configuration when it first looks at   *)
(* the package and keeps that copy; delete, list_append and set are kept   *)
(* in the cursor until commit, which applies them, in order, to the        *)
(* configuration committed at that moment.  The state file is read whole   *)
(* by readfile and written whole by writefile.                             *)
(***************************************************************************)
Handlers == {1, 2}

\* a handler without a request
NoHandler == [op |-> "none", pc |-> "done"]

\* one change of a cursor applied to a configuration
ApplyChange(u, c) ==
    CASE c.cmd = "delete" -> SetUser(u, c.section, c.option, <<>>)
      [] c.cmd = "list_append" ->
            SetUser(u, c.section, c.option,
                    Append(OrDefault(GetUser(u, c.section, c.option), <<>>), c.value))
      [] OTHER -> SetUser(u, c.section, c.option, c.value)

\* ctx.commit('2fa'): the changes of the cursor applied to the committed configuration
RECURSIVE ApplyDelta(_, _)
ApplyDelta(u, delta) ==
    IF delta = <<>> THEN u ELSE ApplyDelta(ApplyChange(u, Head(delta)), Tail(delta))

\* ctx.delete('2fa', username, 'backup_codes')
DeleteCodes(username) == [cmd |-> "delete", section |-> username, option |-> "backup_codes"]

\* ctx.list_append('2fa', username, 'backup_codes', hash) for every hash of a list
AppendCodes(username, hashes) ==
    [j \in 1..Len(hashes) |->
        [cmd |-> "list_append", section |-> username, option |-> "backup_codes",
         value |-> hashes[j]]]

\* the handler h at the step pc of the function op
At(h, op, pc) == inflight[h].op = op /\ inflight[h].pc = pc

\* what the stepwise handlers leave alone
Elsewhere == UNCHANGED <<now, issued, call, ret>>

\* the codes two logins submit
HandlerCodes == {StoredBatch[1], StoredBatch[2], TUnknownBackup}

\* verify_backup_code(username, code) is entered
BackupBegin(h) ==
    /\ inflight[h].op = "none"
    /\ \E code \in HandlerCodes :
          inflight' = [inflight EXCEPT ![h] =
              [op |-> "verify_backup_code", pc |-> "get_all", username |-> TRoot,
               code |-> code, stored_codes |-> <<>>, i |-> 0, delta |-> <<>>, valid |-> FALSE]]
    /\ UNCHANGED <<uci, rl>>
    /\ Elsewhere

\* ctx.get_all and the search for the hash of the code
BackupGetAll(h) ==
    /\ At(h, "verify_backup_code", "get_all")
    /\ \E stored \in {StoredCodes(uci, inflight[h].username)} :
        \E i \in {FirstMatch(stored, HashOf(NormalizeBackupCode(inflight[h].code)))} :
          inflight' = [inflight EXCEPT ![h].stored_codes = stored, ![h].i = i,
                                       ![h].pc = IF i = 0 THEN "done" ELSE "delete"]
    /\ UNCHANGED <<uci, rl>>
    /\ Elsewhere

\* ctx.delete of the option in the cursor
BackupDelete(h) ==
    /\ At(h, "verify_backup_code", "delete")
    /\ inflight' = [inflight EXCEPT ![h].delta = <<DeleteCodes(inflight[h].username)>>,
                                    ![h].pc = "list_append"]
    /\ UNCHANGED <<uci, rl>>
    /\ Elsewhere

\* ctx.list_append of every other hash that was read
BackupListAppend(h) ==
    /\ At(h, "verify_backup_code", "list_append")
    /\ inflight' = [inflight EXCEPT
            ![h].delta = @ \o AppendCodes(inflight[h].username,
                                          RemoveAt(inflight[h].stored_codes, inflight[h].i)),
            ![h].pc = "commit"]
    /\ UNCHANGED <<uci, rl>>
    /\ Elsewhere

\* ctx.commit('2fa'); return { valid: true, consumed: true }
BackupCommit(h) ==
    /\ At(h, "verify_backup_code", "commit")
    /\ uci' = ApplyDelta(uci, inflight[h].delta)
    /\ inflight' = [inflight EXCEPT ![h].valid = TRUE, ![h].pc = "done"]
    /\ UNCHANGED rl
    /\ Elsewhere

\* the batches two regenerations ask for: count and what /dev/urandom delivers
RegenerateInputs == {<<0, Null>>, <<2, RandomSame>>}

\* generateBackupCodes is entered and generate_backup_codes(count) has run
RegenerateBegin(h) ==
    /\ inflight[h].op = "none"
    /\ \E g \in RegenerateInputs :
          inflight' = [inflight EXCEPT ![h] =
              [op |-> "generateBackupCodes", pc |-> "delete", username |-> TRoot,
               codes |-> BackupCodesOf(IF g[1] = 0 THEN 5 ELSE g[1], g[2], now),
               delta |-> <<>>, result |-> FALSE]]
    /\ UNCHANGED <<uci, rl>>
    /\ Elsewhere

\* ctx.delete and the ctx.list_append of every new hash, in the cursor
RegenerateStage(h) ==
    /\ At(h, "generateBackupCodes", "delete")
    /\ inflight' = [inflight EXCEPT
            ![h].delta = <<DeleteCodes(inflight[h].username)>>
                         \o AppendCodes(inflight[h].username,
                                        [i \in 1..Len(inflight[h].codes) |->
                                            HashOf(inflight[h].codes[i])]),
            ![h].pc = "commit"]
    /\ UNCHANGED <<uci, rl>>
    /\ Elsewhere

\* ctx.commit('2fa'); return { result: true, codes }
RegenerateCommit(h) ==
    /\ At(h, "generateBackupCodes", "commit")
    /\ uci' = ApplyDelta(uci, inflight[h].delta)
    /\ inflight' = [inflight EXCEPT ![h].result = TRUE, ![h].pc = "done"]
    /\ UNCHANGED rl
    /\ Elsewhere

\* the six-digit texts two HOTP logins submit: the codes of the counters 0 and 1
HandlerOtps == {OtpCode(TKey, 0), OtpCode(TKey, 1)}

\* the HOTP branch of verify_otp / verifyOTP is entered: ctx.get of the type
\* loads the package into the cursor of the handler
HotpBegin(h) ==
    /\ inflight[h].op = "none"
    /\ OrDefault(GetUser(uci, TRoot, "type"), TTotp) = THotp
    /\ \E otp \in HandlerOtps :
          inflight' = [inflight EXCEPT ![h] =
              [op |-> "verify_hotp", pc |-> "popen", username |-> TRoot, otp |-> otp,
               package |-> uci, expected_of |-> -1, counter |-> -1, delta |-> <<>>,
               success |-> FALSE]]
    /\ UNCHANGED <<uci, rl>>
    /\ Elsewhere

\* popen of generate_otp.uc <user> --no-increment and the comparison with its output
HotpHelper(h) ==
    /\ At(h, "verify_hotp", "popen")
    /\ \E run \in {generate_otp(uci, inflight[h].username, "ok", TRUE, now)} :
          inflight' = [inflight EXCEPT
              ![h].expected_of = CounterOf(uci, inflight[h].username),
              ![h].pc = IF constant_time_compare(trim(run.out), inflight[h].otp)
                        THEN "get_counter" ELSE "done"]
    /\ UNCHANGED <<uci, rl>>
    /\ Elsewhere

\* int(ctx.get('2fa', safe_username, 'counter') || '0') from the package of the cursor
HotpGetCounter(h) ==
    /\ At(h, "verify_hotp", "get_counter")
    /\ inflight' = [inflight EXCEPT ![h].counter = CounterOf(inflight[h].package, inflight[h].username),
                                    ![h].pc = "set"]
    /\ UNCHANGED <<uci, rl>>
    /\ Elsewhere

\* ctx.set('2fa', safe_username, 'counter', '' + (counter + 1))
HotpSet(h) ==
    /\ At(h, "verify_hotp", "set")
    /\ inflight' = [inflight EXCEPT
            ![h].delta = <<[cmd |-> "set", section |-> inflight[h].username,
                            option |-> "counter",
                            value |-> IntToStr(inflight[h].counter + 1)]>>,
            ![h].pc = "commit"]
    /\ UNCHANGED <<uci, rl>>
    /\ Elsewhere

\* ctx.commit('2fa'); return { success: true }
HotpCommit(h) ==
    /\ At(h, "verify_hotp", "commit")
    /\ uci' = ApplyDelta(uci, inflight[h].delta)
    /\ inflight' = [inflight EXCEPT ![h].success = TRUE, ![h].pc = "done"]
    /\ UNCHANGED rl
    /\ Elsewhere

\* the addresses two handlers work on
HandlerIPs == {IpOut, IpIn}

\* the functions of the rate limiter a handler may be given on their own
RateFunctions == {"check_rate_limit", "record_failed_attempt", "clear_rate_limit"}

\* the first step of a function of the rate limiter
FirstStep(fn) ==
    CASE fn = "check_rate_limit" -> "check_load"
      [] fn = "record_failed_attempt" -> "record_load"
      [] OTHER -> "clear_load"

\* the submitted values of two logins through verify(): wrong, missing, and right
VerifyOtps == {<<"0", "0", "0", "0", "0", "0">>, Null, OtpCode(TKey, 0)}

\* a function of the rate limiter is entered for an address
RateBegin(h) ==
    /\ inflight[h].op = "none"
    /\ \E fn \in RateFunctions, ip \in HandlerIPs :
          inflight' = [inflight EXCEPT ![h] =
              [op |-> fn, pc |-> FirstStep(fn), ip |-> ip, user |-> TRoot, otp |-> Null,
               state |-> <<>>, rate_check |-> NotCalled, compared_at |-> 0,
               recorded_at |-> 0, success |-> FALSE]]
    /\ UNCHANGED <<uci, rl>>
    /\ Elsewhere

\* verify(http, user) is entered: the client address and the allowlist
VerifyBegin(h) ==
    /\ inflight[h].op = "none"
    /\ \E ip \in HandlerIPs, otp \in VerifyOtps :
        \E client_ip \in {get_client_ip(Http(ip, otp))} :
          inflight' = [inflight EXCEPT ![h] =
              [op |-> "verify", ip |-> client_ip, user |-> TRoot, otp |-> otp,
               pc |-> IF Truthy(client_ip) /\ is_ip_whitelisted(uci, client_ip) THEN "done"
                      ELSE IF Truthy(client_ip) THEN "check_load" ELSE "verify_otp",
               state |-> <<>>, rate_check |-> NotCalled, compared_at |-> 0,
               recorded_at |-> 0,
               success |-> Truthy(client_ip) /\ is_ip_whitelisted(uci, client_ip)]]
    /\ UNCHANGED <<uci, rl>>
    /\ Elsewhere

\* whether check_rate_limit reaches one of its two save_rate_limit_state calls
CheckSaves(u, state, time, ip) ==
    /\ GetSetting(u, "rate_limit_enabled") = T1
    /\ ~(EntryOf(state, ip).locked_until > time)

\* the step after check_rate_limit has returned
AfterCheck(p, rate_check) ==
    IF p.op = "verify" /\ rate_check.allowed THEN "verify_otp" ELSE "done"

\* check_rate_limit up to its save: the settings, time(), load_rate_limit_state and
\* the new entry of the address
CheckLoad(h) ==
    /\ inflight[h].op \in {"check_rate_limit", "verify"}
    /\ inflight[h].pc = "check_load"
    /\ \E o \in {check_rate_limit(uci, rl, now, inflight[h].ip)} :
          inflight' = [inflight EXCEPT
              ![h].state = o.state,
              ![h].rate_check = o.ret,
              ![h].pc = IF CheckSaves(uci, rl, now, inflight[h].ip) THEN "check_save"
                        ELSE AfterCheck(inflight[h], o.ret)]
    /\ UNCHANGED <<uci, rl>>
    /\ Elsewhere

\* save_rate_limit_state(state) of check_rate_limit and its return
CheckSave(h) ==
    /\ inflight[h].op \in {"check_rate_limit", "verify"}
    /\ inflight[h].pc = "check_save"
    /\ rl' = inflight[h].state
    /\ inflight' = [inflight EXCEPT ![h].pc = AfterCheck(inflight[h], inflight[h].rate_check)]
    /\ UNCHANGED uci
    /\ Elsewhere

\* verify_otp(user, otp) of verify(), from the missing value to the credential
VerifyOtp(h) ==
    /\ At(h, "verify", "verify_otp")
    /\ CounterInBound
    /\ \E v \in {plugin_verify_otp(uci, now, inflight[h].user,
                                   TrimIfGiven(inflight[h].otp), AllOk)} :
        /\ uci' = v.uci
        /\ inflight' = [inflight EXCEPT
              ![h].success = v.success,
              ![h].compared_at = now,
              ![h].pc = IF ~Truthy(inflight[h].ip) THEN "done"
                        ELSE IF v.success THEN "clear_load" ELSE "record_load"]
    /\ UNCHANGED rl
    /\ Elsewhere

\* record_failed_attempt up to its save
RecordLoad(h) ==
    /\ inflight[h].op \in {"record_failed_attempt", "verify"}
    /\ inflight[h].pc = "record_load"
    /\ inflight' = [inflight EXCEPT
          ![h].state = record_failed_attempt(uci, rl, now, inflight[h].ip),
          ![h].recorded_at = now,
          ![h].pc = IF GetSetting(uci, "rate_limit_enabled") # T1 THEN "done"
                    ELSE "record_save"]
    /\ UNCHANGED <<uci, rl>>
    /\ Elsewhere

\* save_rate_limit_state(state) of record_failed_attempt
RecordSave(h) ==
    /\ inflight[h].op \in {"record_failed_attempt", "verify"}
    /\ inflight[h].pc = "record_save"
    /\ rl' = inflight[h].state
    /\ inflight' = [inflight EXCEPT ![h].pc = "done"]
    /\ UNCHANGED uci
    /\ Elsewhere

\* clear_rate_limit up to its save
ClearLoad(h) ==
    /\ inflight[h].op \in {"clear_rate_limit", "verify"}
    /\ inflight[h].pc = "clear_load"
    /\ inflight' = [inflight EXCEPT
          ![h].state = clear_rate_limit(rl, inflight[h].ip),
          ![h].pc = IF inflight[h].ip \in DOMAIN rl THEN "clear_save" ELSE "done"]
    /\ UNCHANGED <<uci, rl>>
    /\ Elsewhere

\* save_rate_limit_state(state) of clear_rate_limit
ClearSave(h) ==
    /\ inflight[h].op \in {"clear_rate_limit", "verify"}
    /\ inflight[h].pc = "clear_save"
    /\ rl' = inflight[h].state
    /\ inflight' = [inflight EXCEPT ![h].pc = "done"]
    /\ UNCHANGED uci
    /\ Elsewhere

\* the configurations and state files two handlers start from
HandlerStarts ==
    {Start(Config(BaseSettings, [BaseUser EXCEPT !.type = THotp, !.backup_codes = StoredHashes]),
           <<>>, StoredBatch),
     Start(Config(QuickSettings, [BaseUser EXCEPT !.type = THotp, !.backup_codes = StoredHashes]),
           [i \in {IpIn} |-> [attempts |-> <<StartTime>>, locked_until |-> 0]], StoredBatch)}

InitHandlers ==
    /\ now = StartTime
    /\ \E s \in HandlerStarts : uci = s.uci /\ rl = s.rl /\ issued = s.issued
    /\ call = NoCall
    /\ ret = NoRet
    /\ inflight = [h \in Handlers |-> NoHandler]

NextHandlers ==
    \/ Tick
    \/ \E h \in Handlers : BackupBegin(h)
    \/ \E h \in Handlers : BackupGetAll(h)
    \/ \E h \in Handlers : BackupDelete(h)
    \/ \E h \in Handlers : BackupListAppend(h)
    \/ \E h \in Handlers : BackupCommit(h)
    \/ \E h \in Handlers : RegenerateBegin(h)
    \/ \E h \in Handlers : RegenerateStage(h)
    \/ \E h \in Handlers : RegenerateCommit(h)
    \/ \E h \in Handlers : HotpBegin(h)
    \/ \E h \in Handlers : HotpHelper(h)
    \/ \E h \in Handlers : HotpGetCounter(h)
    \/ \E h \in Handlers : HotpSet(h)
    \/ \E h \in Handlers : HotpCommit(h)
    \/ \E h \in Handlers : RateBegin(h)
    \/ \E h \in Handlers : VerifyBegin(h)
    \/ \E h \in Handlers : CheckLoad(h)
    \/ \E h \in Handlers : CheckSave(h)
    \/ \E h \in Handlers : VerifyOtp(h)
    \/ \E h \in Handlers : RecordLoad(h)
    \/ \E h \in Handlers : RecordSave(h)
    \/ \E h \in Handlers : ClearLoad(h)
    \/ \E h \in Handlers : ClearSave(h)

SpecHandlers == InitHandlers /\ [][NextHandlers]_vars

(***************************************************************************)
(* Properties of handlers beside each other.                               *)
(***************************************************************************)
\* the handlers that have returned from the function op
Returned(op) == {h \in Handlers : At(h, op, "done")}

\* C21: when two handlers verify the same backup code of the same principal
\* beside each other, at most one of them returns valid
BackupCodeOnceAmongHandlers ==
    \A g, h \in Returned("verify_backup_code") :
        (/\ g # h
         /\ inflight[g].username = inflight[h].username
         /\ NormalizeBackupCode(inflight[g].code) = NormalizeBackupCode(inflight[h].code))
            => ~(inflight[g].valid /\ inflight[h].valid)

\* C22: when two handlers verify a hotp principal beside each other, the code of
\* one counter value is accepted by at most one of them, and once both have
\* returned the stored counter has grown by the number of successes
HotpOnceAmongHandlers ==
    /\ \A g, h \in Returned("verify_hotp") :
          (g # h /\ inflight[g].success /\ inflight[h].success)
              => inflight[g].expected_of # inflight[h].expected_of
    /\ Returned("verify_hotp") = Handlers
          => CounterOf(uci, TRoot) = Cardinality({h \in Handlers : inflight[h].success})

\* the state file the run started from
StartFile == (CHOOSE s \in HandlerStarts : s.uci.settings = uci.settings).rl

\* C23: when two handlers run record_failed_attempt for one address beside each
\* other, the stored failure list of the address has grown by 2 once both have returned
NoLostFailureRecord ==
    (/\ Returned("record_failed_attempt") = Handlers
     /\ inflight[1].ip = inflight[2].ip)
        => /\ Len(EntryOf(rl, inflight[1].ip).attempts)
                = Len(EntryOf(StartFile, inflight[1].ip).attempts) + 2
           /\ \A h \in Handlers :
                 \E k \in DOMAIN EntryOf(rl, inflight[1].ip).attempts :
                     EntryOf(rl, inflight[1].ip).attempts[k] = inflight[h].recorded_at

\* the entry of an address in a state file, Null when it has none
StoredEntry(state, ip) == IF ip \in DOMAIN state THEN state[ip] ELSE Null

\* the handler h takes a step of a function of the rate limiter
RateStep(h) ==
    /\ inflight[h].op \in RateFunctions \cup {"verify"}
    /\ inflight'[h] # inflight[h]

\* C24: a step of check_rate_limit, record_failed_attempt or clear_rate_limit for
\* one address leaves the stored entry of every other address as it is, also
\* when another handler works beside it
AddressIsolation ==
    [][\A h \in Handlers :
          RateStep(h) =>
              \A b \in HandlerIPs \ {inflight[h].ip} :
                  StoredEntry(rl', b) = StoredEntry(rl, b)]_vars

(***************************************************************************)
(* The login flow alone: check() and verify() of the plugin, one request   *)
(* after the other, with the settings of the start.                        *)
(***************************************************************************)
NextLogin ==
    \/ Tick
    \/ Deliver
    \/ PluginCheck
    \/ PluginVerify

SpecLogin == Init /\ [][NextLogin]_vars

\* the settings of the rate limiter as check_rate_limit reads them
WindowOf(u) == int(OrDefault(GetSetting(u, "rate_limit_window"), T60))
LockoutOf(u) == int(OrDefault(GetSetting(u, "rate_limit_lockout"), T300))

\* the failure list of ip is full inside the window and ip is not locked
FullList(u, state, time, ip) ==
    /\ ip \in DOMAIN state
    /\ ~(state[ip].locked_until > time)
    /\ Len(RecentAttempts(state[ip].attempts, time, WindowOf(u))) >= MaxAttempts(u)

\* C25: with rate limiting enabled, after any sequence of check() and verify()
\* calls the failure list of every address holds at most max_attempts
\* timestamps, and the next check_rate_limit of an address with a full list
\* locks it: list emptied, locked_until set, not allowed
BoundedFailureList ==
    GetSetting(uci, "rate_limit_enabled") = T1
        => \A ip \in DOMAIN rl :
              /\ Len(rl[ip].attempts) <= MaxAttempts(uci)
              /\ FullList(uci, rl, now, ip)
                    => /\ check_rate_limit(uci, rl, now, ip).state[ip]
                            = [attempts |-> <<>>, locked_until |-> now + LockoutOf(uci)]
                       /\ check_rate_limit(uci, rl, now, ip).ret
                            = [allowed |-> FALSE, remaining |-> 0,
                               locked_until |-> now + LockoutOf(uci)]

\* verify() has recorded the failure that fills the list of its address
ListFilledByVerify ==
    /\ call.op = "verify"
    /\ GetSetting(uci, "rate_limit_enabled") = T1
    /\ FullList(uci, rl, now, call.ip)
    /\ Len(rl[call.ip].attempts) = 2

\* the handlers whose verify() for ip reached the comparison of a submitted
\* value and failed
FailedGuesses(ip) ==
    {h \in Handlers : /\ inflight[h].op = "verify"
                      /\ inflight[h].ip = ip
                      /\ Truthy(inflight[h].otp)
                      /\ inflight[h].compared_at > 0
                      /\ ~inflight[h].success}

\* the comparisons of a set of handlers fall into one window
InOneWindow(S) ==
    \A g, h \in S : inflight[g].compared_at - inflight[h].compared_at < WindowOf(uci)

\* C26: the failed verifications of one address that reach the credential
\* comparison inside one window are at most max_attempts, also when the
\* requests are handled beside each other
GuessBudgetAmongHandlers ==
    \A ip \in HandlerIPs :
        InOneWindow(FailedGuesses(ip))
            => Cardinality(FailedGuesses(ip)) <= MaxAttempts(uci)

\* the address of the request of a step is locked in the state file
ServesLocked(ops) ==
    /\ Serves(ops)
    /\ Truthy(call'.ip)
    /\ EntryOf(rl, call'.ip).locked_until > now

\* the failure list of ip is empty and check_rate_limit allows ip at its locked_until
EndsAtLockedUntil(u, state, ip) ==
    /\ state[ip].attempts = <<>>
    /\ check_rate_limit(u, state, state[ip].locked_until, ip).ret.allowed

\* check_rate_limit refuses ip one second before its locked_until and gives
\* it the whole budget at locked_until
NotBeforeLockedUntil(u, state, ip) ==
    /\ ~check_rate_limit(u, state, state[ip].locked_until - 1, ip).ret.allowed
    /\ check_rate_limit(u, state, state[ip].locked_until, ip).ret
          = [allowed |-> TRUE, remaining |-> MaxAttempts(u), locked_until |-> 0]

\* C27 as stated: while locked_until of an address is in the future, check() and
\* verify() calls for the address leave the state file as it is, the failure
\* list is empty, and the address is allowed again exactly at locked_until
LockoutFixed ==
    [][ServesLocked({"check", "verify"})
       => /\ rl' = rl
          /\ EndsAtLockedUntil(uci, rl', call'.ip)]_vars

\* C27, amended: as stated when rate limiting is enabled
LockoutFixedWhenEnabled ==
    [][(ServesLocked({"check", "verify"}) /\ GetSetting(uci, "rate_limit_enabled") = T1)
       => /\ rl' = rl
          /\ EndsAtLockedUntil(uci, rl', call'.ip)
          /\ NotBeforeLockedUntil(uci, rl', call'.ip)]_vars

\* verify() was refused for an address that an earlier call had locked
RefusedDuringLock ==
    /\ call.op = "verify"
    /\ Flag(ret, "rate_limited")
    /\ rl[call.ip].locked_until > now
    /\ rl[call.ip].locked_until < now + LockoutOf(uci)

\* the number of stored timestamps of ip that are later than time - window
CountedFailures(state, time, window, ip) ==
    Cardinality({k \in DOMAIN EntryOf(state, ip).attempts :
                    EntryOf(state, ip).attempts[k] > time - window})

\* the shape of a result r of check_rate_limit for ip with the limiter on
ResultShape(r, u, state, time, ip) ==
    \/ /\ r.allowed
       /\ r.locked_until = 0
       /\ r.remaining >= 1
       /\ r.remaining <= MaxAttempts(u)
       /\ r.remaining = MaxAttempts(u) - CountedFailures(state, time, WindowOf(u), ip)
    \/ /\ ~r.allowed
       /\ r.remaining = 0
       /\ r.locked_until > time

\* C28: with rate limiting enabled every result of check_rate_limit is either
\* allowed with 1 <= remaining <= max_attempts, locked_until = 0 and remaining =
\* max_attempts minus the timestamps later than now - window, or refused with
\* remaining = 0 and locked_until > now; checked on every reachable state file
\* for the settings of the model, and on the result each check() and verify() got
CheckRateLimitShape ==
    /\ \A cfg \in RateConfigs, ip \in DOMAIN rl \cup {IpOut} :
          ResultShape(check_rate_limit(WithRate(uci, cfg), rl, now, ip).ret,
                      WithRate(uci, cfg), rl, now, ip)
    /\ (call.rate_check # NotCalled /\ GetSetting(uci, "rate_limit_enabled") = T1)
          => \/ call.rate_check.allowed /\ call.rate_check.locked_until = 0
                /\ call.rate_check.remaining \in 1..MaxAttempts(uci)
             \/ ~call.rate_check.allowed /\ call.rate_check.remaining = 0
                /\ call.rate_check.locked_until > now

\* an address has a failure exactly window seconds old on its list and
\* check_rate_limit gives it the whole budget
WindowOldNotCounted ==
    /\ GetSetting(uci, "rate_limit_enabled") = T1
    /\ \E ip \in DOMAIN rl :
          /\ \E k \in DOMAIN rl[ip].attempts : rl[ip].attempts[k] = now - WindowOf(uci)
          /\ check_rate_limit(uci, rl, now, ip).ret
                = [allowed |-> TRUE, remaining |-> MaxAttempts(uci), locked_until |-> 0]

\* the hashes of the codes a regeneration returned
HashesOf(codes) == [i \in 1..Len(codes) |-> HashOf(codes[i])]

\* no handler but g regenerates the codes
OnlyRegeneration(g) == \A h \in Handlers \ {g} : inflight[h].op # "generateBackupCodes"

\* C29: once generateBackupCodes has committed, the stored list is the hashes
\* of the codes it returned, in order, also when a verify_backup_code that read
\* the old list commits afterwards; and a code one handler consumed is not
\* stored again by a handler that consumes another code
RegenerationReplacesBatch ==
    /\ \A g \in Returned("generateBackupCodes") :
          OnlyRegeneration(g) => StoredCodes(uci, TRoot) = HashesOf(inflight[g].codes)
    /\ \A h \in Returned("verify_backup_code") :
          (inflight[h].valid /\ OnlyRegeneration(h))
              => HashOf(NormalizeBackupCode(inflight[h].code)) \notin Range(StoredCodes(uci, TRoot))

\* verifyOTP reaches the backup-code check with a value that matches no stored hash
BackupMiss(explicit) ==
    /\ Serves({"verifyOTP"})
    /\ ReachesOtp(call', ret')
    /\ Truthy(call'.otp)
    /\ call'.is_backup_code = explicit
    /\ ~verify_backup_code(uci, TRoot, trim(call'.otp)).valid

\* the explicit attempt is refused without the helper and without a change of
\* the configuration
RefusedAsBackupCode ==
    /\ ret' = [result |-> FALSE, invalid_backup_code |-> TRUE]
    /\ call'.helper_calls = 0
    /\ uci' = uci

\* the failure list of the caller's address gains the current time
OneFailureRecorded ==
    EntryOf(rl', call'.ip).attempts =
        Append(RecentAttempts(EntryOf(rl, call'.ip).attempts, now, WindowOf(uci)), now)

\* a backup-shaped value that missed goes on to the helper
TriedAgainstHelper ==
    MatchBackupFormat(trim(call'.otp)) => (call'.backup_tried /\ call'.helper_calls >= 1)

authd_step(u, user) == int(OrDefault(GetUser(u, user, "step"), T30))

\* the TOTP probe with index k of verify_otp of auth.d
authd_probe(u, time, username, h, k) ==
    generate_otp(u, username, h[k], TRUE, check_time(time, authd_step(u, username), k))

\* the probes verify_otp of auth.d accepts
authd_totp_accepts(u, time, username, otp, h) ==
    {k \in 1..3 : \E r \in {authd_probe(u, time, username, h, k)} :
                      /\ r.fd
                      /\ MatchSixDigits(trim(r.out))
                      /\ constant_time_compare(trim(r.out), otp)}

\* verify_otp(username, otp) of auth.d: [success, uci, helper_calls]
authd_verify_otp(u, time, username, otp, h) ==
    LET Failed(calls) == [success |-> FALSE, uci |-> u, helper_calls |-> calls]
        Hotp(run) ==
            IF ~run.fd THEN Failed(1)
            ELSE IF ~MatchSixDigits(trim(run.out)) THEN Failed(1)
            ELSE IF constant_time_compare(trim(run.out), trim(otp))
            THEN [success |-> TRUE,
                  uci |-> SetUser(u, username, "counter",
                                  IntToStr(CounterOf(u, username) + 1)),
                  helper_calls |-> 1]
            ELSE Failed(1)
        Totp(accepts) ==
            IF accepts # {} THEN [Failed(Min(accepts)) EXCEPT !.success = TRUE] ELSE Failed(3)
    IN  IF ~Truthy(otp) \/ sanitize_username(username) = Null THEN Failed(0)
        ELSE IF ~MatchSixDigits(trim(otp)) THEN Failed(0)
        ELSE IF OrDefault(GetUser(u, username, "type"), TTotp) = THotp
        THEN Hotp(generate_otp(u, username, h[1], TRUE, time))
        ELSE Totp(authd_totp_accepts(u, time, username, trim(otp), h))

AuthdMsgEnter == "Please enter your one-time password."
AuthdMsgInvalid == "Invalid one-time password. Please try again."

\* verify(http, user) of auth.d
authd_verify(u, state, time, http, user, h) ==
    IF ~Truthy(TrimIfGiven(http.luci_otp))
    THEN Outcome([success |-> FALSE, message |-> AuthdMsgEnter], u, state, NotCalled, FALSE, 0)
    ELSE LET v == authd_verify_otp(u, time, user, TrimIfGiven(http.luci_otp), h)
         IN  IF ~v.success
             THEN Outcome([success |-> FALSE, message |-> AuthdMsgInvalid], v.uci, state,
                          NotCalled, FALSE, v.helper_calls)
             ELSE Outcome([success |-> TRUE], v.uci, state, NotCalled, FALSE, v.helper_calls)

\* the login flow hands the submitted form to the plugin of the package
AuthdVerify ==
    /\ Idle
    /\ CounterInBound
    /\ \E s \in {x \in Submissions(issued) : ~x.is_backup_code} :
        \E o \in {authd_verify(uci, rl, now, Http(s.ip, s.otp), s.user, s.h)} :
            /\ uci' = o.uci
            /\ rl' = o.state
            /\ call' = CallOf("authd_verify", s, <<>>, o)
            /\ ret' = o.ret
            /\ UNCHANGED <<inflight, now, issued>>

TMinus2 == <<"-", "2">>

\* the steps the option step of root holds at the start
StoredSteps == {Null, T0, TMinus2, T2, T3}

\* a totp principal with each of the stored steps
StepStarts ==
    {Start(Config([BaseSettings EXCEPT !.rate_limit_enabled = T0],
                  [BaseUser EXCEPT !.step = step]), <<>>, <<>>) : step \in StoredSteps}

InitSteps == InitFrom(StepStarts)

NextSteps ==
    \/ Tick
    \/ Deliver
    \/ PluginVerify
    \/ AuthdVerify
    \/ RpcVerifyOTP

SpecSteps == InitSteps /\ [][NextSteps]_vars

\* the step the claim gives for a stored value
NormalStep(stored) == IF stored = Null \/ int(stored) <= 0 THEN 30 ELSE int(stored)

\* the step a TOTP verification of the handler op computes its probed times with
StepUsed(op, u, user) == IF op = "authd_verify" THEN authd_step(u, user) ELSE StepOf(u, user)

\* the three times a TOTP verification of the handler op asks the helper for
ProbedTimes(op, u, time, user) == [k \in 1..3 |-> check_time(time, StepUsed(op, u, user), k)]

TotpOps == {"verify", "verifyOTP", "authd_verify"}

\* the handler reached the TOTP probes of root
ReachesTotp ==
    /\ Serves(TotpOps)
    /\ call'.user = TRoot
    /\ Truthy(call'.otp)
    /\ MatchSixDigits(trim(call'.otp))
    /\ call'.helper_calls >= 1

\* C31: in every TOTP verification path the step the probed times are computed
\* with is 30 when the stored step is missing, zero or negative and the stored
\* positive value otherwise, and the three probed times are pairwise distinct.
StepNormalised ==
    [][ReachesTotp =>
          /\ StepUsed(call'.op, uci, TRoot) = NormalStep(GetUser(uci, TRoot, "step"))
          /\ \A j, k \in 1..3 :
                 j # k => ProbedTimes(call'.op, uci, now, TRoot)[j]
                            # ProbedTimes(call'.op, uci, now, TRoot)[k]]_vars

\* the options of a principal a verification never writes
FixedOptions == {"key", "type", "step"}

\* new is old without one of its entries
OneEntryRemoved(old, new) ==
    \E i \in 1..Len(old) : new = SubSeq(old, 1, i - 1) \o SubSeq(old, i + 1, Len(old))

\* the response reports a one-time password of a hotp principal that matched
HotpMatched(u, c, r) ==
    /\ c.op \in VerifyOps
    /\ Succeeded(c.op, r)
    /\ c.helper_calls >= 1
    /\ GetUser(u, c.user, "type") = THotp

\* C32: check(), verify() and verifyOTP change the configuration in two ways
\* only: the counter of the verified hotp principal grows by 1 on a HOTP match,
\* and the backup_codes list of the verified principal loses one entry on a
\* backup-code match; every other outcome leaves both as they were, and no
\* call changes key, type, step or a settings option.
VerificationFrame ==
    [][Serves({"check", "verify", "verifyOTP"}) =>
          /\ uci'.settings = uci.settings
          /\ DOMAIN uci'.users = DOMAIN uci.users
          /\ \A n \in DOMAIN uci.users :
                /\ \A f \in FixedOptions : uci'.users[n][f] = uci.users[n][f]
                /\ IF n = call'.user /\ HotpMatched(uci, call', ret')
                   THEN CounterOf(uci', n) = CounterOf(uci, n) + 1
                   ELSE uci'.users[n].counter = uci.users[n].counter
                /\ IF n = call'.user /\ Flag(ret', "backup_code_used")
                   THEN OneEntryRemoved(uci.users[n].backup_codes, uci'.users[n].backup_codes)
                   ELSE uci'.users[n].backup_codes = uci.users[n].backup_codes]_vars

\* a backup code was redeemed for a hotp principal whose counter an earlier
\* HOTP match had advanced, and another stored hash is left
RedeemedAfterHotpMatch ==
    /\ call.op \in VerifyOps
    /\ Flag(ret, "backup_code_used")
    /\ GetUser(uci, TRoot, "type") = THotp
    /\ CounterOf(uci, TRoot) >= 1
    /\ Len(StoredCodes(uci, TRoot)) = 1

(***************************************************************************)
(* The source address of a request.  part_006 holds the auth plugin twice: *)
(* the later text (lines 1-614) and an earlier text (lines 616-1077) with  *)
(* its own get_client_ip and check().                                      *)
(***************************************************************************)
\* get_client_ip of the earlier text: the first X-Forwarded-For entry, or REMOTE_ADDR
plugin2_get_client_ip(http) ==
    LET ip == IF Truthy(http.HTTP_X_FORWARDED_FOR)
              THEN trim(split(http.HTTP_X_FORWARDED_FOR, ",")[1])
              ELSE http.HTTP_X_FORWARDED_FOR
    IN  IF Truthy(ip) THEN ip
        ELSE IF Truthy(http.REMOTE_ADDR) THEN http.REMOTE_ADDR ELSE <<>>

\* check(http, user) of the earlier text
plugin2_check(u, state, time, http, user) ==
    LET client_ip == plugin2_get_client_ip(http)
        Factor(st, rate_check) == Outcome(authd_check(u, user), u, st, rate_check, FALSE, 0)
        Limited(rc) ==
            IF ~rc.ret.allowed
            THEN Outcome([required |-> TRUE, blocked |-> TRUE,
                          message |-> <<MsgTooMany, rc.ret.locked_until - time>>,
                          fields |-> <<>>],
                         u, rc.state, rc.ret, FALSE, 0)
            ELSE Factor(rc.state, rc.ret)
    IN  IF Truthy(client_ip) /\ is_ip_whitelisted(u, client_ip)
        THEN Outcome([required |-> FALSE, whitelisted |-> TRUE], u, state, NotCalled, FALSE, 0)
        ELSE IF Truthy(client_ip)
        THEN Limited(check_rate_limit(u, state, time, client_ip))
        ELSE Factor(state, NotCalled)

\* the requests with their headers: a peer address and an X-Forwarded-For header
ForwardedRequests ==
    {[REMOTE_ADDR |-> peer, HTTP_X_FORWARDED_FOR |-> xff, luci_otp |-> Null] :
        peer \in {IpOut, IpIn, TLoopback4, TLoopback6, Null},
        xff \in {Null, <<>>, IpIn, IpOut, IpIn \o <<",", " ">> \o IpOut}}

\* check() of the later text for a request with its headers
PluginCheckHeaders ==
    /\ Idle
    /\ \E http \in ForwardedRequests :
        \E o \in {plugin_check(uci, rl, now, http, TRoot)} :
            /\ uci' = o.uci
            /\ rl' = o.state
            /\ call' = [CallOf("check", Submission(http.REMOTE_ADDR, TRoot, Null, FALSE, AllOk),
                                get_client_ip(http), o) EXCEPT !.args = http]
            /\ ret' = o.ret
            /\ UNCHANGED <<inflight, now, issued>>

\* check() of the earlier text for a request with its headers
Plugin2Check ==
    /\ Idle
    /\ \E http \in ForwardedRequests :
        \E o \in {plugin2_check(uci, rl, now, http, TRoot)} :
            /\ uci' = o.uci
            /\ rl' = o.state
            /\ call' = [CallOf("plugin2_check",
                                Submission(http.REMOTE_ADDR, TRoot, Null, FALSE, AllOk),
                                plugin2_get_client_ip(http), o) EXCEPT !.args = http]
            /\ ret' = o.ret
            /\ UNCHANGED <<inflight, now, issued>>

\* the allowlist is on, 192.168.1.7 is on it and 8.8.8.8 is locked out
AddressStarts ==
    {Start(Config([BaseSettings EXCEPT !.ip_whitelist_enabled = T1],
                  [BaseUser EXCEPT !.type = THotp]), LockedOut, <<>>)}

InitAddress == InitFrom(AddressStarts)

NextAddress ==
    \/ Tick
    \/ Deliver
    \/ PluginCheckHeaders
    \/ Plugin2Check

SpecAddress == InitAddress /\ [][NextAddress]_vars

\* the request is served with a peer address that is present and not loopback
ServedForPeer ==
    /\ Serves({"check", "plugin2_check"})
    /\ Truthy(call'.args.REMOTE_ADDR)
    /\ call'.args.REMOTE_ADDR \notin {TLoopback4, TLoopback6}

\* C33: the address used as rate-limit key and for the allowlist decision is
\* REMOTE_ADDR whenever it is present and not 127.0.0.1 or ::1, whatever the
\* X-Forwarded-For header holds: the header neither changes the key nor gains
\* the allowlist bypass nor escapes a lockout.
TrustedSourceAddress ==
    [][ServedForPeer =>
          /\ call'.ip = call'.args.REMOTE_ADDR
          /\ Flag(ret', "whitelisted") <=> is_ip_whitelisted(uci, call'.args.REMOTE_ADDR)
          /\ Flag(ret', "blocked") <=>
                 /\ ~is_ip_whitelisted(uci, call'.args.REMOTE_ADDR)
                 /\ ~check_rate_limit(uci, rl, now, call'.args.REMOTE_ADDR).ret.allowed]_vars

(***************************************************************************)
(* setConfig with an ip_whitelist argument.                                *)
(***************************************************************************)
\* the entries an administrator submits: valid and invalid addresses and ranges
SubmittedEntries ==
    {<<"1", "0", ".", "0", ".", "0", ".", "5">>,
     <<"2", "5", "6", ".", "1", ".", "1", ".", "1">>,
     <<"1", "9", "2", ".", "1", "6", "8", ".", "1", ".", "0", "/", "2", "4">>,
     <<"1", "0", ".", "0", ".", "0", ".", "0", "/", "3", "3">>,
     <<":", ":", "1">>,
     <<"f", "e", "8", "0", ":", ":", "/", "1", "2", "9">>,
     <<"1", "0", ".", "0", ".", "0", ".", "9", "9", "9", "/", "8">>,
     <<"a", "b", "c">>,
     <<>>}

\* the ip_whitelist arguments: lists of one or two entries
AllowlistArgs ==
    {[NoArgs EXCEPT !.ip_whitelist = <<a>>] : a \in SubmittedEntries}
      \cup {[NoArgs EXCEPT !.ip_whitelist = <<a, b>>] : a, b \in SubmittedEntries}

\* ubus call 2fa setConfig with an ip_whitelist argument
RpcSetAllowlist == RpcSetConfigFrom(AllowlistArgs)

NextAllowlist ==
    \/ Deliver
    \/ RpcSetAllowlist

SpecAllowlist == InitConfig /\ [][NextAllowlist]_vars

\* an IPv4 address or range with an octet above 255
OctetAbove255(entry) ==
    /\ entry # <<>>
    /\ MatchIPv4(split(entry, "/")[1])
    /\ ~OctetsValid(split(split(entry, "/")[1], "."))

\* C34: after a setConfig call with a non-empty ip_whitelist argument the stored
\* list is the sub-list of the submitted entries that pass is_valid_ip, in
\* order; an entry with an octet above 255 is never stored; and a call whose
\* entries are all invalid leaves the stored list as it was.
AllowlistValidatedOnWrite ==
    [][(/\ Serves({"setConfig"})
        /\ call'.args.ip_whitelist # Null
        /\ Len(call'.args.ip_whitelist) > 0)
       => /\ GetSetting(uci', "ip_whitelist") = SelectSeq(call'.args.ip_whitelist, is_valid_ip)
          /\ \A i \in 1..Len(GetSetting(uci', "ip_whitelist")) :
                 ~OctetAbove255(GetSetting(uci', "ip_whitelist")[i])
          /\ (\A i \in 1..Len(call'.args.ip_whitelist) :
                 ~is_valid_ip(call'.args.ip_whitelist[i]))
                => GetSetting(uci', "ip_whitelist") = GetSetting(uci, "ip_whitelist")]_vars

LoginOps == {"check", "verify", "verifyOTP"}

\* the call answered a success to the address ip
SucceededFor(c, r, ip) == c.op \in VerifyOps /\ Succeeded(c.op, r) /\ c.ip = ip

\* how often the time t is on a failure list
TimesOn(attempts, t) == Len(SelectSeq(attempts, LAMBDA a : a = t))

\* every failure of ip that is inside the window is still on its list after the step
RecentFailuresKept(ip) ==
    \A t \in Range(rl[ip].attempts) :
        t > now - WindowOf(uci)
            => /\ ip \in DOMAIN rl'
               /\ TimesOn(rl'[ip].attempts, t) >= TimesOn(rl[ip].attempts, t)

\* the step takes the lockout of ip
LockTaken(ip) ==
    /\ rl[ip].locked_until <= now
    /\ ip \in DOMAIN rl'
    /\ rl'[ip] = [attempts |-> <<>>, locked_until |-> now + LockoutOf(uci)]

\* C35 as stated: in the login path the entry of an address is deleted only by
\* a call that answered a success to that address, and a failed or blocked
\* call removes no failure time that is still inside the window.
FailureNeverResetsBudget ==
    [][Serves(LoginOps) =>
          \A ip \in DOMAIN rl :
              /\ ip \notin DOMAIN rl' => SucceededFor(call', ret', ip)
              /\ ~SucceededFor(call', ret', ip) => RecentFailuresKept(ip)]_vars

\* C35, amended: the same, except for the blocked call that takes the lockout
\* of the address, which replaces the failure list by the lockout time.
FailureNeverResetsBudgetUnlessLocking ==
    [][Serves(LoginOps) =>
          \A ip \in DOMAIN rl :
              /\ ip \notin DOMAIN rl' => SucceededFor(call', ret', ip)
              /\ ~SucceededFor(call', ret', ip)
                    => \/ RecentFailuresKept(ip)
                       \/ LockTaken(ip) /\ call'.ip = ip /\ ~call'.rate_check.allowed]_vars

\* a failed verification left an earlier failure of the same address, still
\* inside the window, on the list beside its own
FailureKeptBesideNew ==
    /\ call.op \in VerifyOps
    /\ ~Succeeded(call.op, ret)
    /\ call.rate_check.allowed
    /\ call.ip \in DOMAIN rl
    /\ Len(rl[call.ip].attempts) >= 2
    /\ rl[call.ip].attempts[Len(rl[call.ip].attempts)] = now
    /\ \E k \in 1..(Len(rl[call.ip].attempts) - 1) :
          /\ rl[call.ip].attempts[k] < now
          /\ rl[call.ip].attempts[k] > now - WindowOf(uci)

\* isEnabled in the state and for the principal and address of the request c
EnabledFor(c) == rpc_isEnabled(uci, now, [username |-> c.user, client_ip |-> c.ip]).enabled

\* C36: whenever isEnabled answers enabled=false for a principal and an address,
\* verifyOTP called in the same state for them answers result=true for every
\* submitted code and records no failure.
NotRequiredAgrees ==
    [][(Serves({"verifyOTP"}) /\ ~EnabledFor(call')) => (ret'.result /\ rl' = rl)]_vars

(***************************************************************************)
(* handle_request of the uhttpd wrapper: dispatch_with_2fa inside try, and *)
(* the dispatcher again when the wrapper has thrown.  The wrapper throws   *)
(* when cursor() gives no cursor (the configuration cannot be loaded) and  *)
(* ctx.get is called on it.                                                *)
(***************************************************************************)
\* handle_request: what is done with the request, and the configuration left
handle_request(u, time, req, h, no_cursor) ==
    IF no_cursor
    THEN [ret |-> [action |-> "dispatch", wrapper_error |-> TRUE], uci |-> u]
    ELSE dispatch_with_2fa(u, time, req, h)

\* a request reaches handle_request
HandleRequest ==
    /\ Idle
    /\ CounterInBound
    /\ \E req \in WrapperRequests, no_cursor \in BOOLEAN :
        \E o \in {handle_request(uci, now, req, req.h, no_cursor)} :
            /\ uci' = o.uci
            /\ call' = [NoCall EXCEPT !.op = "handle_request", !.user = req.luci_username,
                                      !.otp = req.luci_otp, !.h = req.h,
                                      !.args = [req |-> req, no_cursor |-> no_cursor]]
            /\ ret' = o.ret
            /\ UNCHANGED <<inflight, now, rl, issued>>

NextWrapper ==
    \/ Tick
    \/ Deliver
    \/ HandleRequest

SpecWrapper == Init /\ [][NextWrapper]_vars

\* a login request for a principal for whom 2FA is enabled reaches the wrapper
LoginWithFactor ==
    /\ Serves({"handle_request"})
    /\ call'.args.req.luci_username # Null
    /\ call'.args.req.luci_password # Null
    /\ uhttpd_is_2fa_enabled(uci, call'.args.req.luci_username)

\* C37: for a login request of a principal with 2FA enabled, handle_request
\* passes the request to the dispatcher only after verify_2fa_otp has returned
\* true for the submitted luci_otp; with a missing or wrong OTP, or when the
\* wrapper throws, the dispatcher is not called.
WrapperGatesDispatcher ==
    [][LoginWithFactor =>
          (ret'.action = "dispatch"
              => /\ ~call'.args.no_cursor
                 /\ verify_2fa_otp(uci, now, call'.user, call'.otp, call'.h).ok)]_vars

\* what getBackupCodesCount answers for the principal name in the configuration u
CountFor(u, name) == rpc_getBackupCodesCount(u, [username |-> name]).count

\* the non-empty hashes stored for the principal the handlers take for name
UnusedHashes(u, name) ==
    IF rpc_sanitize_username(OrDefault(name, TRoot)) = Null THEN 0
    ELSE ValidCount(StoredCodes(u, rpc_sanitize_username(OrDefault(name, TRoot))))

\* no code that was issued or stored at the start verifies for root in u
NoCodeVerifies(u) ==
    \A c \in Range(issued) \cup Range(StoredBatch) : ~verify_backup_code(u, TRoot, c).valid

\* C38: getBackupCodesCount(u) is the number of non-empty stored hashes of u; a
\* successful backup-code verification lowers it by exactly 1 and keeps the
\* other hashes in their order; a failed verification leaves it unchanged;
\* after clearBackupCodes(u) it is 0 and no code verifies for u; an invalid
\* principal name gives count 0 and changes nothing.
BackupCountTracksUnused ==
    [][/\ \A name \in UserNames \cup {Null} : CountFor(uci', name) = UnusedHashes(uci', name)
       /\ Serves({"getBackupCodesCount"})
             => ret' = [count |-> UnusedHashes(uci, call'.user)] /\ uci' = uci
       /\ (Serves(VerifyOps) /\ Flag(ret', "backup_code_used"))
             => /\ CountFor(uci', call'.user) = CountFor(uci, call'.user) - 1
                /\ OneEntryRemoved(StoredCodes(uci, call'.user), StoredCodes(uci', call'.user))
       /\ (Serves(VerifyOps) /\ ~Succeeded(call'.op, ret'))
             => \A name \in UserNames : StoredCodes(uci', name) = StoredCodes(uci, name)
       /\ (Serves({"clearBackupCodes"}) /\ rpc_sanitize_username(call'.user) # Null)
             => ret'.result /\ CountFor(uci', call'.user) = 0 /\ NoCodeVerifies(uci')
       /\ (Serves({"clearBackupCodes", "getBackupCodesCount"})
            /\ call'.user # Null /\ rpc_sanitize_username(call'.user) = Null)
             => CountFor(uci', call'.user) = 0 /\ uci' = uci]_vars

\* one of two issued codes was redeemed and one hash is left
RedeemedOneOfTwo ==
    /\ call.op \in VerifyOps
    /\ Flag(ret, "backup_code_used")
    /\ Len(issued) = 2
    /\ CountFor(uci, TRoot) = 1

(***************************************************************************)
(* The steps of the OTP engine on their own: the key block of              *)
(* calculate_hmac_sha1 and the dynamic truncation of test_totp.            *)
(***************************************************************************)
\* a string of n bytes
BytesOfLength(n, m) == [i \in 1..n |-> (i * m) % 256]

LongKeyLengths == {65, 100}

\* the keys of the calls: every length up to the block size, and longer ones
HmacKeys ==
    {BytesOfLength(n, m) : n \in 0..64, m \in {1, 7}}
        \cup {BytesOfLength(n, 7) : n \in LongKeyLengths}

\* calculate_hmac_sha1 up to the two pads
HmacKeyBlock ==
    /\ Idle
    /\ \E key \in HmacKeys :
        /\ call' = [NoCall EXCEPT !.op = "calculate_hmac_sha1", !.args = [key |-> key]]
        /\ ret' = [binary_key |-> binary_key_padded(key),
                   ipad |-> KeyPad(binary_key_padded(key), 54),
                   opad |-> KeyPad(binary_key_padded(key), 92)]
        /\ UNCHANGED <<inflight, now, uci, rl, issued>>

InitEngine == InitFrom(BackupStarts)

\* 20-byte digests: every offset nibble in the last byte, bytes with and
\* without the top bit, and one whose value has a single digit
TruncationDigests ==
    {[i \in 1..20 |-> IF i = 20 THEN last ELSE (a * i + b) % 256] :
        a \in {0, 13}, b \in {0, 255}, last \in (0..15) \cup {250, 255}}
        \cup {[i \in 1..20 |-> IF i = 16 THEN 128 ELSE IF i = 19 THEN 5
                                ELSE IF i = 20 THEN 255 ELSE 0]}

\* counters: int(timestamp / step) of small and large times
TruncationCounters == {0, 1, 255, 256, 65536, 16777216, 58994680, 2147483647}

\* test_totp from the counter bytes to the printed code, for a given digest
TestTotpTruncation ==
    /\ Idle
    /\ \E digest \in TruncationDigests, counter \in TruncationCounters :
        /\ call' = [NoCall EXCEPT !.op = "test_totp",
                                  !.args = [digest |-> digest, counter |-> counter]]
        /\ ret' = [counter_bytes |-> CounterBytes(counter),
                   offset_bits |-> digest[20] % 16,
                   p |-> [i \in 1..4 |-> digest[(digest[20] % 16) + i]],
                   snum |-> DynamicTruncation(digest),
                   otp |-> Pad6(DynamicTruncation(digest) % 1000000)]
        /\ UNCHANGED <<inflight, now, uci, rl, issued>>

NextEngine ==
    \/ Deliver
    \/ HmacKeyBlock
    \/ TestTotpTruncation

SpecEngine == InitEngine /\ [][NextEngine]_vars

Zeros(n) == [i \in 1..n |-> 0]

\* C39: for a key of 0 bytes, of 1..64 bytes and of more than 64 bytes
\* calculate_hmac_sha1 builds a key block of exactly 64 defined bytes before
\* the pads are XOR-ed: the key followed by zero bytes when it has at most 64
\* bytes, the 20-byte SHA-1 of the key followed by 44 zero bytes when it is
\* longer; both pads (0x36 and 0x5c) are built from that block.
HmacKeyBlockDefined ==
    call.op = "calculate_hmac_sha1" =>
        /\ Len(ret.binary_key) = 64
        /\ \A i \in 1..64 : ret.binary_key[i] \in 0..255
        /\ ret.binary_key =
              IF Len(call.args.key) <= 64
              THEN call.args.key \o Zeros(64 - Len(call.args.key))
              ELSE calculate_sha1(call.args.key) \o Zeros(44)
        /\ ret.ipad = [i \in 1..64 |-> BitXor(ret.binary_key[i], 54)]
        /\ ret.opad = [i \in 1..64 |-> BitXor(ret.binary_key[i], 92)]

\* C40: for every 20-byte digest the offset digest[19] & 0xf lies in 0..15 and
\* the four bytes read lie inside the digest; the big-endian value of these
\* bytes with the top bit cleared lies in 0..2^31-1; the code is that value
\* modulo 10^6 printed as exactly six decimal digits with leading zeros; the
\* HMAC message is the 8-byte big-endian encoding of the counter.
TruncationInRange ==
    call.op = "test_totp" =>
        LET digest == call.args.digest
            o == ret.offset_bits
        IN  /\ o = digest[20] % 16
            /\ o \in 0..15
            /\ \A i \in 1..4 : o + i \in 1..20 /\ ret.p[i] = digest[o + i]
            /\ ret.snum \in 0..2147483647
            /\ ret.snum \div 16777216 = ret.p[1] % 128
            /\ (ret.snum \div W16) % 256 = ret.p[2]
            /\ (ret.snum \div 256) % 256 = ret.p[3]
            /\ ret.snum % 256 = ret.p[4]
            /\ Len(ret.otp) = 6
            /\ \A i \in 1..6 : IsDigit(ret.otp[i])
            /\ DigitsToInt(ret.otp) = ret.snum % 1000000
            /\ Len(ret.counter_bytes) = 8
            /\ \A i \in 1..4 : ret.counter_bytes[i] = 0
            /\ \A i \in 5..8 : ret.counter_bytes[i] \in 0..255
            /\ ret.counter_bytes[5] * 16777216 + ret.counter_bytes[6] * W16
                    + ret.counter_bytes[7] * 256 + ret.counter_bytes[8]
                = call.args.counter

\* the last offset, a first byte with the top bit set, a counter of four bytes
TruncatedAtLastOffset ==
    /\ call.op = "test_totp"
    /\ ret.offset_bits = 15
    /\ ret.p[1] >= 128
    /\ call.args.counter >= 16777216
    /\ ret.otp[1] = "0"

====
